---------------------------- MODULE Spec2Model ----------------------------
(***************************************************************************)
(* Ingestion and protocol-encoding layer of the FlatSat device simulator.  *)
(*                                                                         *)
(* The module holds several state machines over one set of variables:      *)
(*   SpecEndian  EnhancedTCPSocketReaderWithEndianness: byte stream ->     *)
(*               8-byte frames -> endianness detector -> latest vector     *)
(*   SpecFrames  EnhancedTCPSocketReader: byte stream -> frames, timing    *)
(*               check, quality counters (one port, byte level)            *)
(*   SpecReader  EnhancedTCPSocketReader: listener threads, client         *)
(*               handler threads, stop_listening (thread level)            *)
(*   SpecRx      TCPPortReceiver / MATLABTCPReceiver: one thread per port, *)
(*               with the time spent in blocking calls                     *)
(*   SpecEnc     magnetometer and reaction-wheel encoders                  *)
(* Each specification leaves the variables of the others unchanged.        *)
(***************************************************************************)
EXTENDS Integers, Sequences, FiniteSets, TLC

(***************************************************************************)
(* IEEE-754 doubles.  A double is represented by its 64-bit pattern, a     *)
(* sequence of 8 bytes, most significant byte first.  struct.unpack('>d')  *)
(* reads the wire bytes in order, struct.unpack('<d') reads them reversed. *)
(***************************************************************************)
Byte == 0..255

Reverse(s) == [i \in 1..Len(s) |-> s[Len(s) + 1 - i]]

UnpackBE(data) == data
UnpackLE(data) == Reverse(data)

Exponent(d) == (d[1] % 128) * 16 + (d[2] \div 16)
MantissaZero(d) == (d[2] % 16 = 0) /\ (\A i \in 3..8 : d[i] = 0)
IsNaN(d) == Exponent(d) = 2047 /\ ~MantissaZero(d)
IsInf(d) == Exponent(d) = 2047 /\ MantissaZero(d)
\* float('-inf') < value < float('inf')
IsFinite(d) == Exponent(d) < 2047
IsNegative(d) == d[1] >= 128
AbsBits(d) == [d EXCEPT ![1] = d[1] % 128]

RECURSIVE BitsLessFrom(_, _, _)
BitsLessFrom(a, b, i) ==
    IF i > 8 THEN FALSE
    ELSE IF a[i] < b[i] THEN TRUE
    ELSE IF a[i] > b[i] THEN FALSE
    ELSE BitsLessFrom(a, b, i + 1)
\* order of two non-negative doubles = order of their bit patterns
BitsLess(a, b) == BitsLessFrom(a, b, 1)

\* abs(v) < c and abs(v) > c for a positive finite constant c; False on NaN
AbsLt(d, c) == ~IsNaN(d) /\ BitsLess(AbsBits(d), c)
AbsGt(d, c) == ~IsNaN(d) /\ BitsLess(c, AbsBits(d))

Dbl_1e6 == <<65, 46, 132, 128, 0, 0, 0, 0>>
Dbl_1em6 == <<62, 176, 198, 247, 160, 181, 237, 141>>
Dbl_1000 == <<64, 143, 64, 0, 0, 0, 0, 0>>
Dbl_Zero == <<0, 0, 0, 0, 0, 0, 0, 0>>

\* abs(v) < 1e6 and abs(v) > 1e-6
Reasonable(d) == AbsLt(d, Dbl_1e6) /\ AbsGt(d, Dbl_1em6)
\* -1000 < val < 1000
InSensorRange(d) == AbsLt(d, Dbl_1000)

(***************************************************************************)
(* Numeric value of a double in units of 1/2, used by the variance of the  *)
(* consistency scorer.  Exact for the multiples of 0.5 up to 15.5 and for  *)
(* patterns below 2^-500, whose squares underflow to 0.0 in the float the  *)
(* variance is returned as.  The sample alphabet stays inside this domain. *)
(***************************************************************************)
RECURSIVE Pow2(_)
Pow2(n) == IF n = 0 THEN 1 ELSE 2 * Pow2(n - 1)

HalfUnits(d) ==
    LET e == Exponent(d)
        m == IF e >= 1022 /\ e <= 1026
             THEN ((16 + (d[2] % 16)) * Pow2(e - 1022)) \div 16
             ELSE 0
    IN IF IsNegative(d) THEN 0 - m ELSE m

OnGrid(d) ==
    LET e == Exponent(d)
    IN \/ e < 523
       \/ e = 2047
       \/ /\ e >= 1022 /\ e <= 1026
          /\ \A i \in 3..8 : d[i] = 0
          /\ ((16 + (d[2] % 16)) * Pow2(e - 1022)) % 16 = 0


(***************************************************************************)
(* Exact rationals [n, d] with d > 0, for the scorer confidences.          *)
(***************************************************************************)
RECURSIVE GCD(_, _)
GCD(a, b) == IF b = 0 THEN a ELSE GCD(b, a % b)

Abs(x) == IF x < 0 THEN 0 - x ELSE x
Max(a, b) == IF a > b THEN a ELSE b
Min(a, b) == IF a < b THEN a ELSE b

Rat(n, d) ==
    LET g == GCD(Abs(n), d)
    IN IF g = 0 THEN [n |-> 0, d |-> 1] ELSE [n |-> n \div g, d |-> d \div g]

RatAdd(a, b) == Rat(a.n * b.d + b.n * a.d, a.d * b.d)
RatLess(a, b) == a.n * b.d < b.n * a.d
RatMin1(a) == IF a.n > a.d THEN Rat(1, 1) ELSE a
RatZero == Rat(0, 1)
RatHalf == Rat(1, 2)

(***************************************************************************)
(* Samples: 8 bytes in wire order.                                         *)
(***************************************************************************)
S_One == <<0, 0, 0, 0, 0, 0, 240, 63>>      \* 1.0 little-endian
S_Two == <<0, 0, 0, 0, 0, 0, 0, 64>>        \* 2.0 little-endian
S_Inf == <<0, 0, 0, 0, 0, 0, 240, 127>>     \* +Infinity little-endian
S_NaN == <<0, 0, 0, 0, 0, 0, 248, 127>>     \* NaN little-endian
S_BEOne == <<63, 240, 0, 0, 0, 0, 0, 0>>    \* 1.0 big-endian
S_BEInf == <<127, 240, 0, 0, 0, 0, 0, 0>>   \* +Infinity big-endian
S_Zero == <<0, 0, 0, 0, 0, 0, 0, 0>>        \* 0.0 in either byte order

KnownSamples == {S_One, S_Two, S_Inf, S_NaN, S_BEOne, S_BEInf, S_Zero}

\* the samples a peer of the endianness reader sends
Alphabet == {S_One, S_Inf, S_NaN, S_BEOne, S_BEInf, S_Zero}


\* The per-sample quantities the scorers use.  SampleInfo is their table over
\* the alphabet, evaluated once; Info(s) is the same record for any sample.
ComputeInfo(s) ==
    [le_reasonable |-> Reasonable(UnpackLE(s)),
     be_reasonable |-> Reasonable(UnpackBE(s)),
     le_in_range |-> Reasonable(UnpackLE(s)) /\ InSensorRange(UnpackLE(s)),
     be_in_range |-> Reasonable(UnpackBE(s)) /\ InSensorRange(UnpackBE(s)),
     le_units |-> IF IsFinite(UnpackLE(s)) THEN HalfUnits(UnpackLE(s)) ELSE 0,
     be_units |-> IF IsFinite(UnpackBE(s)) THEN HalfUnits(UnpackBE(s)) ELSE 0]

SampleInfo == [s \in KnownSamples |-> ComputeInfo(s)]

Info(s) == IF s \in KnownSamples THEN SampleInfo[s] ELSE ComputeInfo(s)

(***************************************************************************)
(* EndiannessDetector (installer_tcp/ars_tcp_socket_reader_endianness.py). *)
(* A scorer result is [is_big_endian, confidence].                         *)
(***************************************************************************)
detection_samples == 50
min_detection_samples == 10

Count(samples, P(_)) == Cardinality({i \in 1..Len(samples) : P(samples[i])})

\* _analyze_range_score over the values that passed the reasonable-range
\* filter of _detect_by_range: kept of them, good of them inside (-1000, 1000)
AnalyzeRangeScore(kept, good) == IF kept = 0 THEN RatZero ELSE Rat(good, kept)

RatAbsDiff(a, b) == Rat(Abs(a.n * b.d - b.n * a.d), a.d * b.d)

RangeResult(le_range_score, be_range_score) ==
    [is_big_endian |-> RatLess(le_range_score, be_range_score),
     confidence |-> RatMin1(RatAbsDiff(be_range_score, le_range_score))]

DetectByRange(samples) ==
    RangeResult(
        AnalyzeRangeScore(Count(samples, LAMBDA s : Info(s).le_reasonable),
                          Count(samples, LAMBDA s : Info(s).le_in_range)),
        AnalyzeRangeScore(Count(samples, LAMBDA s : Info(s).be_reasonable),
                          Count(samples, LAMBDA s : Info(s).be_in_range)))

PatternResult(le_pattern_score, be_pattern_score, total_samples) ==
    [is_big_endian |-> be_pattern_score > le_pattern_score,
     confidence |-> RatMin1(Rat(Abs(be_pattern_score - le_pattern_score),
                                Max(total_samples, 1)))]

DetectByPattern(samples) ==
    PatternResult(Count(samples, LAMBDA s : s[1] = 0 /\ s[2] = 0),
                  Count(samples, LAMBDA s : s[7] = 0 /\ s[8] = 0),
                  Len(samples))

RECURSIVE SumOver(_, _, _)
SumOver(samples, F(_), i) ==
    IF i > Len(samples) THEN 0 ELSE F(samples[i]) + SumOver(samples, F, i + 1)

\* n(n-1) * statistics.variance(values) in units of 1/4: n*sum(x^2) - sum(x)^2
ScaledVariance(n, sx, sxx) == IF n > 1 THEN n * sxx - sx * sx ELSE 0

\* max(le + be, 1e-10): a non-zero sum of two variances is above 1e-10
ConsistencyResult(le_variance, be_variance) ==
    [is_big_endian |-> be_variance < le_variance,
     confidence |-> IF le_variance + be_variance = 0 THEN RatZero
                    ELSE RatMin1(Rat(Abs(le_variance - be_variance),
                                     le_variance + be_variance))]

\* the series hold 0 in place of a non-finite value
DetectByConsistency(samples) ==
    ConsistencyResult(
        ScaledVariance(Len(samples),
                       SumOver(samples, LAMBDA s : Info(s).le_units, 1),
                       SumOver(samples, LAMBDA s : Info(s).le_units * Info(s).le_units, 1)),
        ScaledVariance(Len(samples),
                       SumOver(samples, LAMBDA s : Info(s).be_units, 1),
                       SumOver(samples, LAMBDA s : Info(s).be_units * Info(s).be_units, 1)))

NoDetection == [none |-> TRUE]

BoolToNat(b) == IF b THEN 1 ELSE 0

CombineResults(range_result, pattern_result, consistency_result, samples_tested) ==
    LET big_endian_votes == BoolToNat(range_result.is_big_endian)
                            + BoolToNat(pattern_result.is_big_endian)
                            + BoolToNat(consistency_result.is_big_endian)
        little_endian_votes == 3 - big_endian_votes
        total_confidence == RatAdd(RatAdd(range_result.confidence,
                                          pattern_result.confidence),
                                   consistency_result.confidence)
    IN [is_big_endian |-> big_endian_votes > little_endian_votes,
        confidence |-> Rat(total_confidence.n, 3 * total_confidence.d),
        samples_tested |-> samples_tested]

DetectEndianness(samples) ==
    CombineResults(DetectByRange(samples), DetectByPattern(samples),
                   DetectByConsistency(samples), Len(samples))

\* add_sample: the new window and the new detection result of one port
AddSampleWindow(window, data) ==
    LET appended == Append(window, data)
    IN IF Len(appended) > detection_samples
       THEN SubSeq(appended, Len(appended) - detection_samples + 1, Len(appended))
       ELSE appended

AddSampleDetection(window, detection, data) ==
    LET w == AddSampleWindow(window, data)
    IN IF Len(w) >= min_detection_samples THEN DetectEndianness(w) ELSE detection

(***************************************************************************)
(* _parse_float_data_with_endianness, after add_sample: `detection' is the *)
(* result get_detection_result returns.  NoValue stands for None.          *)
(***************************************************************************)
NoValue == <<>>

ParseFallback(data) ==
    LET le_value == UnpackLE(data)
        be_value == UnpackBE(data)
        le_reasonable == Reasonable(le_value)
        be_reasonable == Reasonable(be_value)
    IN IF le_reasonable /\ ~be_reasonable THEN le_value
       ELSE IF be_reasonable /\ ~le_reasonable THEN be_value
       ELSE le_value

ParseConfident(data, detection) ==
    LET value == IF detection.is_big_endian THEN UnpackBE(data) ELSE UnpackLE(data)
    IN IF ~IsFinite(value) THEN NoValue ELSE value

Confident(detection) ==
    detection # NoDetection /\ RatLess(RatHalf, detection.confidence)

ParseFloatDataWithEndianness(data, detection) ==
    IF Len(data) # 8 THEN NoValue
    ELSE IF Confident(detection) THEN ParseConfident(data, detection)
    ELSE ParseFallback(data)


(***************************************************************************)
(* Bounds of the model.                                                    *)
(***************************************************************************)
NumPorts == 2
MaxFramesE == 11
MaxSwitches == 1

Ports == 0..(NumPorts - 1)

(***************************************************************************)
(* State.  The variables of each specification, in groups.                 *)
(***************************************************************************)
\* SpecEndian
VARIABLES
    samples_per_port,      \* EndiannessDetector.samples_per_port[port_index]
    detection_results,     \* EndiannessDetector.detection_results[port_index]
    e_packet_buffers,      \* packet_buffers[port]
    e_packet_counts,       \* packet_counts[port]
    e_latest_data,         \* latest_data: the slot of this port index
    e_port_data_count,     \* latest_data.port_data_count[port_index]
    e_timestamp,           \* latest_data.timestamp
    e_clock,               \* time.time(), counted in reads
    e_last_path,           \* decode path taken by the last complete frame
    e_last_frame           \* the last complete frame

endianVars == <<samples_per_port, detection_results, e_packet_buffers,
                e_packet_counts, e_latest_data, e_port_data_count,
                e_timestamp, e_clock, e_last_path, e_last_frame>>

\* SpecFrames
VARIABLES
    f_packet_buffers,      \* packet_buffers[port]
    f_last_packet_times,   \* last_packet_times[port]
    f_packet_counts,       \* packet_counts[port]
    f_latest_data,         \* latest_data: the slot of this port index
    f_port_data_count,     \* latest_data.port_data_count[port_index]
    f_timestamp,           \* latest_data.timestamp
    f_intervals,           \* latest_data.port_timing_stats[port_index]['intervals']
    f_quality_stats,       \* quality_stats
    f_now,                 \* time.time()
    f_reads,               \* number of recv calls that returned data
    f_last_read,           \* the bytes returned by the last recv
    f_prev_read,           \* the bytes returned by the recv before it
    f_before,              \* the channel as it was before that recv
    f_stream               \* all bytes the recv calls returned, in order

frameVars == <<f_packet_buffers, f_last_packet_times, f_packet_counts,
               f_latest_data, f_port_data_count, f_timestamp, f_intervals,
               f_quality_stats, f_now, f_reads, f_last_read, f_prev_read,
               f_before, f_stream>>

\* SpecReader
VARIABLES
    is_running,            \* self.is_running
    main_pc,               \* position of the main thread
    start_i,               \* loop variable i of start_listening
    servers,               \* ports whose server socket is in self.servers
    server_open,           \* ports whose server socket is open
    threads,               \* self.threads
    join_i,                \* position of stop_listening in self.threads
    joined,                \* threads on which join() has been called
    started,               \* threads on which start() has been called
    lpc,                   \* position of each listener thread
    lloc,                  \* locals of each listener: client_sock, loaded counter
    conn_count,            \* connections accepted so far on each port
    sock_open,             \* server-side sockets that are open
    clients,               \* self.clients[port], 0 when absent
    hpc,                   \* position of each handler thread
    hloc,                  \* locals of each handler; lost: its peer went away while running
    data_lock,             \* the thread holding self.data_lock
    r_packet_buffers,      \* self.packet_buffers
    r_last_packet_times,   \* self.last_packet_times
    r_packet_counts,       \* self.packet_counts
    r_latest_data,         \* self.latest_data slots
    r_port_data_count,     \* self.latest_data.port_data_count
    r_timestamp,           \* self.latest_data.timestamp
    r_intervals,           \* port_timing_stats[i]['intervals']
    r_quality_stats,       \* self.quality_stats
    r_now,                 \* time.time()
    events,                \* number of events of each kind that occurred
    accept_errors,         \* accept() calls that failed on an open server socket
    rejected,              \* connections closed by the listener on arrival
    released               \* ports whose handler has left after its peer went away

readerVars == <<is_running, main_pc, start_i, servers, server_open, threads,
                join_i, joined, started, lpc, lloc, conn_count,
                sock_open, clients, hpc, hloc, data_lock, r_packet_buffers,
                r_last_packet_times, r_packet_counts, r_latest_data,
                r_port_data_count, r_timestamp, r_intervals, r_quality_stats,
                r_now, events, accept_errors, rejected, released>>

\* SpecRx
VARIABLES
    m_is_running,          \* MATLABTCPReceiver.is_running
    m_pc,                  \* position of the thread calling start and stop
    m_i,                   \* the receiver that stop is at
    m_deadline,            \* when the pending join(timeout) gives up
    x_is_running,          \* TCPPortReceiver.is_running, per receiver
    x_pc,                  \* position of each receiver thread in _run
    x_socket,              \* self.socket: "none", "open" or "closed"
    x_float_bytes,         \* local float_bytes of _run
    x_deadline,            \* when the pending blocking call or sleep ends
    x_stats,               \* self.stats
    x_queue,               \* number of items in self.data_queue
    x_conn_count,          \* connections accepted so far by each receiver
    x_accept_errors,       \* accept() calls that raised an error
    x_reads,               \* number of recv calls that returned bytes
    x_stop_time,           \* when stop() cleared is_running, -1 before
    device_data,           \* MATLABTCPReceiver.device_data[device_name]
    device_lock,           \* holder of the device's lock, -1 when free
    x_last_write,          \* the last write to device_data and the lock holder then
    x_now                  \* time.time(), in seconds

rxVars == <<m_is_running, m_pc, m_i, m_deadline, x_is_running, x_pc, x_socket,
            x_float_bytes, x_deadline, x_stats, x_queue, x_conn_count,
            x_accept_errors, x_reads, x_stop_time, device_data, device_lock,
            x_last_write, x_now>>

\* SpecEnc
VARIABLES
    sequence_counter,      \* RS485Encoder.sequence_counter
    mag_message_counter,   \* MagnetometerEncoder.message_counter
    rw_message_counter,    \* ReactionWheelEncoder.message_counter
    enc_calls,             \* number of encoder calls made
    enc_input,             \* the input vector of the last call
    enc_result,            \* what the last call returned or raised
    rs485_calls,           \* number of RS485Encoder.encode_magdata calls made
    enc_seq_before         \* sequence_counter when the last call began

encVars == <<sequence_counter, mag_message_counter, rw_message_counter,
             enc_calls, enc_input, enc_result, rs485_calls, enc_seq_before>>

\* SpecArs
VARIABLES
    duplicate_to_redundant,  \* ARSEncoder.duplicate_to_redundant
    ars_message_counter,     \* ARSEncoder.message_counter
    ars_calls,               \* number of process_matlab_data calls made
    ars_frames,              \* number of frames returned so far
    ars_input,               \* matlab_data of the last call
    ars_result,              \* what the last call returned
    ars_counter_before,      \* message_counter when the last call began
    ars_seen_nonzero         \* some call so far had a non-zero rate input

arsVars == <<duplicate_to_redundant, ars_message_counter, ars_calls,
             ars_frames, ars_input, ars_result, ars_counter_before,
             ars_seen_nonzero>>

\* SpecStatus
VARIABLES
    enabled,                 \* ARSStatusManager.enabled
    cycle_interval,          \* ARSStatusManager.cycle_interval
    scenarios,               \* ARSStatusManager.scenarios
    current_scenario_index,  \* ARSStatusManager.current_scenario_index
    last_cycle_time,         \* ARSStatusManager.last_cycle_time
    sm_now,                  \* time.time()
    sm_log                   \* the calls made: arguments, results, warnings

statusVars == <<enabled, cycle_interval, scenarios, current_scenario_index,
                last_cycle_time, sm_now, sm_log>>

\* SpecTx
VARIABLES
    is_connected,            \* is_connected of each transmitter
    port_open,               \* the serial port or CAN bus of each is open
    transmit_queue,          \* transmit_queue of each transmitter
    thread_alive,            \* transmit_thread of each is running
    stop_event,              \* stop_event of each transmitter
    connect_failed,          \* the last connect() of each returned False
    tx_result                \* the last call and what it returned

txVars == <<is_connected, port_open, transmit_queue, thread_alive, stop_event,
            connect_failed, tx_result>>

\* SpecErr
VARIABLES
    error_stats,             \* ErrorHandler.error_stats
    error_callbacks,         \* ErrorHandler.error_callbacks
    recovery_strategies,     \* ErrorHandler.recovery_strategies
    context,                 \* the ErrorContext the caller passes
    handle_calls,            \* number of handle_error calls made
    eh_result,               \* what the last handle_error call returned
    connection_errors,       \* CONNECTION errors handled since the last reset
    backoff_delay            \* seconds of the last time.sleep of a recovery

errVars == <<error_stats, error_callbacks, recovery_strategies, context,
             handle_calls, eh_result, connection_errors, backoff_delay>>

\* SpecPort
VARIABLES
    p_pc,                    \* position of the receiver thread in _run
    p_float_bytes,           \* local float_bytes of _run
    p_pos,                   \* bytes of the peer's stream read so far
    p_stats,                 \* TCPPortReceiver.stats
    p_queue,                 \* number of items in self.data_queue
    p_callbacks,             \* number of data_callback calls made
    p_device_data,           \* device_data[device_name][port_index]
    p_last_sample,           \* the bytes of the last sample that parsed
    p_partial_reads,         \* recv calls that returned less than asked for
    p_timeouts               \* recv calls that raised socket.timeout

portVars == <<p_pc, p_float_bytes, p_pos, p_stats, p_queue, p_callbacks,
              p_device_data, p_last_sample, p_partial_reads, p_timeouts>>

\* SpecSim
VARIABLES
    sim_running,             \* FlatSatDeviceSimulator.running
    sim_enabled,             \* the devices whose config has enabled set
    sim_pc,                  \* position of the thread calling start and stop
    sim_i,                   \* the device _start_data_processing is at
    sim_threads,             \* FlatSatDeviceSimulator.threads
    sim_thread,              \* position of each device's processing thread
    sim_joined               \* the threads whose join(timeout=2.0) is over

simVars == <<sim_running, sim_enabled, sim_pc, sim_i, sim_threads, sim_thread,
             sim_joined>>

\* SpecXmit
VARIABLES
    tcp_is_connected,        \* TCPTransmitter.is_connected
    tcp_stop_event,          \* TCPTransmitter.stop_event
    tcp_queue,               \* number of items in TCPTransmitter.transmit_queue
    tcp_pc,                  \* position of the thread that owns the transmitter
    tcp_loop,                \* position of each _transmit_loop thread started
    tcp_started,             \* number of _transmit_loop threads started
    tcp_reconnect,           \* position of the _reconnect_loop thread
    tcp_sent                 \* number of items passed to socket.send

xmitVars == <<tcp_is_connected, tcp_stop_event, tcp_queue, tcp_pc, tcp_loop,
              tcp_started, tcp_reconnect, tcp_sent>>

\* SpecUdp: one channel of EnhancedSocketReaderWithEndianness
VARIABLES
    u_samples_per_port,      \* EndiannessDetector.samples_per_port[port_index]
    u_detection_results,     \* EndiannessDetector.detection_results[port_index]
    u_latest_data,           \* the channel's field of latest_data
    u_port_data_count,       \* latest_data.port_data_count[port_index]
    u_quality_stats,         \* quality_stats
    u_last_path,             \* how the last 8-byte datagram was decoded
    u_last_data              \* the last 8-byte datagram

udpVars == <<u_samples_per_port, u_detection_results, u_latest_data,
             u_port_data_count, u_quality_stats, u_last_path, u_last_data>>

lateVars == <<portVars, simVars, xmitVars>>

vars == <<endianVars, frameVars, readerVars, rxVars, encVars, arsVars,
          statusVars, txVars, errVars, udpVars, lateVars>>

newVars == <<statusVars, txVars, errVars, udpVars, lateVars>>

notEndianVars == <<frameVars, readerVars, rxVars, encVars, arsVars, newVars>>
notFramesVars == <<endianVars, readerVars, rxVars, encVars, arsVars, newVars>>
notReaderVars == <<endianVars, frameVars, rxVars, encVars, arsVars, newVars>>
notRxVars == <<endianVars, frameVars, readerVars, encVars, arsVars, newVars>>
notEncVars == <<endianVars, frameVars, readerVars, rxVars, arsVars, newVars>>
notArsVars == <<endianVars, frameVars, readerVars, rxVars, encVars, newVars>>
oldVars == <<endianVars, frameVars, readerVars, rxVars, encVars, arsVars>>
notStatusVars == <<oldVars, txVars, errVars, udpVars, lateVars>>
notTxVars == <<oldVars, statusVars, errVars, udpVars, lateVars>>
notErrVars == <<oldVars, statusVars, txVars, udpVars, lateVars>>
notUdpVars == <<oldVars, statusVars, txVars, errVars, lateVars>>
settledVars == <<oldVars, statusVars, txVars, errVars, udpVars>>
notPortVars == <<settledVars, simVars, xmitVars>>
notSimVars == <<settledVars, portVars, xmitVars>>
notXmitVars == <<settledVars, portVars, simVars>>

(***************************************************************************)
(* SpecEndian: one channel of EnhancedTCPSocketReaderWithEndianness.  The  *)
(* state of a channel (buffer, detector window, verdict, slot of the       *)
(* latest vector) is touched by the frames of that channel only.           *)
(***************************************************************************)


InitEndian ==
    /\ samples_per_port = <<>>
    /\ detection_results = NoDetection
    /\ e_packet_buffers = <<>>
    /\ e_packet_counts = 0
    /\ e_latest_data = Dbl_Zero
    /\ e_port_data_count = 0
    /\ e_timestamp = 0
    /\ e_clock = 0
    /\ e_last_path = "none"
    /\ e_last_frame = <<>>

\* One complete frame of _process_packet_data: add_sample has produced
\* `window' and `detection'; decode, and store when the decode is not None.
FrameStepE(st, rest, packet_data, window, detection, float_value) ==
    [buf |-> rest,
     window |-> window,
     detection |-> detection,
     value |-> IF float_value # NoValue THEN float_value ELSE st.value,
     stored |-> st.stored + (IF float_value # NoValue THEN 1 ELSE 0),
     path |-> IF Confident(detection) THEN "confident" ELSE "fallback",
     frame |-> packet_data]

RECURSIVE ProcessFramesE(_)
ProcessFramesE(st) ==
    IF Len(st.buf) < 8 THEN st
    ELSE ProcessFramesE(
            FrameStepE(st,
                       SubSeq(st.buf, 9, Len(st.buf)),
                       SubSeq(st.buf, 1, 8),
                       AddSampleWindow(st.window, SubSeq(st.buf, 1, 8)),
                       AddSampleDetection(st.window, st.detection, SubSeq(st.buf, 1, 8)),
                       ParseFloatDataWithEndianness(
                           SubSeq(st.buf, 1, 8),
                           AddSampleDetection(st.window, st.detection,
                                              SubSeq(st.buf, 1, 8)))))

ProcessPacketDataE(data) ==
    ProcessFramesE([buf |-> e_packet_buffers \o data,
                    window |-> samples_per_port,
                    detection |-> detection_results,
                    value |-> e_latest_data,
                    stored |-> 0,
                    path |-> e_last_path,
                    frame |-> e_last_frame])

\* number of places where a window changes from one sample to another
Changes(window) == Cardinality({i \in 1..(Len(window) - 1) : window[i] # window[i + 1]})

\* bytes is a stream of whole samples of `samples' followed by the first
\* bytes of one more
RECURSIVE StreamOfSamples(_, _)
StreamOfSamples(bytes, samples) ==
    IF Len(bytes) >= 8
    THEN /\ SubSeq(bytes, 1, 8) \in samples
         /\ StreamOfSamples(SubSeq(bytes, 9, Len(bytes)), samples)
    ELSE \E s \in samples : bytes = SubSeq(s, 1, Len(bytes))

\* what one recv can return: a whole sample, the first 7 bytes of a sample,
\* its last byte, or two samples at once
ChunksE == Alphabet \cup {SubSeq(S_One, 1, 7), SubSeq(S_One, 8, 8), S_One \o S_One}

\* one recv of the client handler followed by _process_packet_data
RecvE(data) ==
    /\ Len(samples_per_port) + (Len(e_packet_buffers \o data) \div 8) <= MaxFramesE
    /\ StreamOfSamples(e_packet_buffers \o data, Alphabet)
    /\ \E st \in {ProcessPacketDataE(data)} :
          /\ Changes(st.window) <= MaxSwitches
          /\ e_packet_buffers' = st.buf
          /\ samples_per_port' = st.window
          /\ detection_results' = st.detection
          /\ e_packet_counts' = e_packet_counts + st.stored
          /\ e_port_data_count' = e_port_data_count + st.stored
          /\ e_latest_data' = st.value
          /\ e_timestamp' = IF st.stored > 0 THEN e_clock + 1 ELSE e_timestamp
          /\ e_last_path' = st.path
          /\ e_last_frame' = st.frame
    /\ e_clock' = e_clock + 1
    /\ UNCHANGED notEndianVars

NextEndian == \E data \in ChunksE : RecvE(data)

(***************************************************************************)
(* SpecFrames: one channel of EnhancedTCPSocketReader at byte level.       *)
(* Times are in milliseconds; 0 in last_packet_times means "no packet yet".*)
(***************************************************************************)
MaxReadsF == 4
StartTime == 100
Deltas == {10, 30}
expected_interval == 10
timing_tolerance_ms == 15
expected_packet_size == 8
intervals_maxlen == 100


\* the fields of the channel, as one record
ChannelF ==
    [buf |-> f_packet_buffers,
     stats |-> f_quality_stats,
     pcount |-> f_packet_counts,
     value |-> f_latest_data,
     dcount |-> f_port_data_count,
     ts |-> f_timestamp,
     intervals |-> f_intervals,
     last |-> f_last_packet_times]

InitFrames ==
    /\ f_packet_buffers = <<>>
    /\ f_last_packet_times = 0
    /\ f_packet_counts = 0
    /\ f_latest_data = Dbl_Zero
    /\ f_port_data_count = 0
    /\ f_timestamp = 0
    /\ f_intervals = <<>>
    /\ f_quality_stats = [total_packets_received |-> 0, valid_packets |-> 0,
                          timing_violations |-> 0, size_violations |-> 0,
                          parse_errors |-> 0, tcp_connection_errors |-> 0]
    /\ f_now = StartTime
    /\ f_reads = 0
    /\ f_last_read = <<>>
    /\ f_prev_read = <<>>
    /\ f_before = <<ChannelF, ChannelF>>
    /\ f_stream = <<>>

\* _parse_float_data(data) with is_big_endian = False: the value, or the
\* counter it increments when it returns None
ParseFloatData(data) ==
    IF Len(data) # 8 THEN [value |-> NoValue, counter |-> "size_violations"]
    ELSE IF ~IsFinite(UnpackLE(data)) THEN [value |-> NoValue, counter |-> "parse_errors"]
    ELSE [value |-> UnpackLE(data), counter |-> "none"]

Bump(stats, counter) ==
    IF counter = "none" THEN stats ELSE [stats EXCEPT ![counter] = @ + 1]

DequeAppend(dq, x) ==
    IF Len(dq) >= intervals_maxlen THEN Append(Tail(dq), x) ELSE Append(dq, x)

\* the timing check made once per call, before the frames are taken
TimingViolation(timestamp, last) ==
    LET time_since_last == IF last > 0 THEN timestamp - last ELSE 0
    IN /\ time_since_last > 0
       /\ Abs(time_since_last - expected_interval) > timing_tolerance_ms

\* one complete frame of the while loop of _process_packet_data
FrameStepF(st, rest, parsed, timestamp) ==
    IF parsed.value = NoValue
    THEN [st EXCEPT !.buf = rest, !.stats = Bump(st.stats, parsed.counter)]
    ELSE [buf |-> rest,
          stats |-> Bump(st.stats, "valid_packets"),
          pcount |-> st.pcount + 1,
          value |-> parsed.value,
          dcount |-> st.dcount + 1,
          ts |-> timestamp,
          intervals |-> IF st.last > 0
                        THEN DequeAppend(st.intervals, timestamp - st.last)
                        ELSE st.intervals,
          last |-> timestamp]

RECURSIVE ProcessFramesF(_, _)
ProcessFramesF(st, timestamp) ==
    IF Len(st.buf) < expected_packet_size THEN st
    ELSE ProcessFramesF(
            FrameStepF(st,
                       SubSeq(st.buf, expected_packet_size + 1, Len(st.buf)),
                       ParseFloatData(SubSeq(st.buf, 1, expected_packet_size)),
                       timestamp),
            timestamp)

\* _process_packet_data with the new bytes put in front of the buffered ones
ProcessPacketDataPrepending(ch, data, timestamp) ==
    ProcessFramesF(
        [ch EXCEPT !.buf = data \o ch.buf,
                   !.stats = Bump(Bump(ch.stats, "total_packets_received"),
                                  IF TimingViolation(timestamp, ch.last)
                                  THEN "timing_violations" ELSE "none")],
        timestamp)

\* _process_packet_data(data, port, port_index, timestamp) on channel ch
ProcessPacketDataOn(ch, data, timestamp) ==
    ProcessFramesF(
        [ch EXCEPT !.buf = ch.buf \o data,
                   !.stats = Bump(Bump(ch.stats, "total_packets_received"),
                                  IF TimingViolation(timestamp, ch.last)
                                  THEN "timing_violations" ELSE "none")],
        timestamp)

ProcessPacketDataF(data, timestamp) == ProcessPacketDataOn(ChannelF, data, timestamp)

ChunksF == {S_One, S_Inf, SubSeq(S_One, 1, 7), SubSeq(S_One, 8, 8), S_One \o S_One}

\* one recv of the client handler, dt after the previous one, followed by
\* timestamp = time.time() and _process_packet_data
RecvF(data, dt) ==
    /\ f_reads < MaxReadsF
    /\ f_reads' = f_reads + 1
    /\ f_now' = f_now + dt
    /\ f_last_read' = data
    /\ f_prev_read' = f_last_read
    /\ f_before' = <<f_before[2], ChannelF>>
    /\ f_stream' = f_stream \o data
    /\ \E st \in {ProcessPacketDataF(data, f_now + dt)} :
          /\ f_packet_buffers' = st.buf
          /\ f_quality_stats' = st.stats
          /\ f_packet_counts' = st.pcount
          /\ f_latest_data' = st.value
          /\ f_port_data_count' = st.dcount
          /\ f_timestamp' = st.ts
          /\ f_intervals' = st.intervals
          /\ f_last_packet_times' = st.last
    /\ UNCHANGED notFramesVars

NextFrames == \E data \in ChunksF : \E dt \in Deltas : RecvF(data, dt)

(***************************************************************************)
(* SpecReader: EnhancedTCPSocketReader at thread level.  One listener      *)
(* thread per port, one handler thread per accepted connection, and the    *)
(* main thread that calls start_listening and stop_listening.  A step is   *)
(* one access to shared state; `x += 1' on a shared counter is a load      *)
(* followed by a store; a `with self.data_lock' block is a step that       *)
(* acquires the lock and runs the body, and a step that releases it.       *)
(***************************************************************************)
MaxConns == 2
MaxReadsR == 2
MaxAcceptErrors == 1

Conns == 1..MaxConns

MainThread == <<"M", 0, 0>>
NoThread == <<"F", 0, 0>>
Listener(p) == <<"L", p, 0>>
Handler(p, c) == <<"H", p, c>>


ZeroStats == [total_packets_received |-> 0, valid_packets |-> 0,
              timing_violations |-> 0, size_violations |-> 0,
              parse_errors |-> 0, tcp_connection_errors |-> 0]

NoLocals == [data |-> <<>>, timestamp |-> 0, value |-> NoValue, reg |-> 0,
             lost |-> FALSE]

InitReader ==
    /\ is_running = FALSE
    /\ main_pc = "init"
    /\ start_i = 0
    /\ servers = {}
    /\ server_open = {}
    /\ threads = <<>>
    /\ join_i = 0
    /\ joined = {}
    /\ started = {}
    /\ lpc = [p \in Ports |-> "none"]
    /\ lloc = [p \in Ports |-> [client_sock |-> 0, reg |-> 0]]
    /\ conn_count = [p \in Ports |-> 0]
    /\ sock_open = [p \in Ports |-> {}]
    /\ clients = [p \in Ports |-> 0]
    /\ hpc = [p \in Ports |-> [c \in Conns |-> "none"]]
    /\ hloc = [p \in Ports |-> [c \in Conns |-> NoLocals]]
    /\ data_lock = NoThread
    /\ r_packet_buffers = [p \in Ports |-> <<>>]
    /\ r_last_packet_times = [p \in Ports |-> 0]
    /\ r_packet_counts = [p \in Ports |-> 0]
    /\ r_latest_data = [p \in Ports |-> Dbl_Zero]
    /\ r_port_data_count = [p \in Ports |-> 0]
    /\ r_timestamp = 0
    /\ r_intervals = [p \in Ports |-> <<>>]
    /\ r_quality_stats = ZeroStats
    /\ r_now = StartTime
    /\ events = ZeroStats
    /\ accept_errors = 0
    /\ rejected = [p \in Ports |-> {}]
    /\ released = {}

mainVars == <<is_running, main_pc, start_i, servers, server_open, threads,
              join_i, joined>>
listenerVars == <<lpc, lloc>>
netVars == <<conn_count>>
handlerVars == <<hpc, hloc>>
dataVars == <<r_packet_buffers, r_last_packet_times, r_packet_counts,
              r_latest_data, r_port_data_count, r_timestamp, r_intervals>>
histVars == <<accept_errors, rejected, released>>

(* ---- main thread: start_listening ---- *)

StartListening ==
    /\ main_pc = "init"
    /\ is_running' = TRUE
    /\ start_i' = 0
    /\ main_pc' = "starting"
    /\ UNCHANGED <<servers, server_open, threads, join_i, joined, started>>
    /\ UNCHANGED <<listenerVars, netVars, sock_open, clients, handlerVars,
                   data_lock, dataVars, r_quality_stats, r_now, events, histVars>>
    /\ UNCHANGED notReaderVars

\* one pass of the for loop with _create_tcp_server returning a socket
StartServer ==
    /\ main_pc = "starting"
    /\ start_i < NumPorts
    /\ servers' = servers \cup {start_i}
    /\ server_open' = server_open \cup {start_i}
    /\ lpc' = [lpc EXCEPT ![start_i] = "loop"]
    /\ started' = started \cup {Listener(start_i)}
    /\ threads' = Append(threads, Listener(start_i))
    /\ start_i' = start_i + 1
    /\ main_pc' = IF start_i + 1 = NumPorts THEN "running" ELSE "starting"
    /\ UNCHANGED <<is_running, join_i, joined, lloc>>
    /\ UNCHANGED <<netVars, sock_open, clients, handlerVars, data_lock,
                   dataVars, r_quality_stats, r_now, events, histVars>>
    /\ UNCHANGED notReaderVars

\* one pass of the for loop with _create_tcp_server returning None
StartServerFails ==
    /\ main_pc = "starting"
    /\ start_i < NumPorts
    /\ main_pc' = "start_failed"
    /\ UNCHANGED <<is_running, start_i, servers, server_open, threads, join_i,
                   joined, started>>
    /\ UNCHANGED <<listenerVars, netVars, sock_open, clients, handlerVars,
                   data_lock, dataVars, r_quality_stats, r_now, events, histVars>>
    /\ UNCHANGED notReaderVars

(* ---- main thread: stop_listening ---- *)

StopSetFlag ==
    /\ main_pc \in {"running", "start_failed"}
    /\ is_running' = FALSE
    /\ main_pc' = "stop_clients"
    /\ UNCHANGED <<start_i, servers, server_open, threads, join_i, joined, started>>
    /\ UNCHANGED <<listenerVars, netVars, sock_open, clients, handlerVars,
                   data_lock, dataVars, r_quality_stats, r_now, events, histVars>>
    /\ UNCHANGED notReaderVars

\* with self.data_lock: close every tracked client socket, clients.clear()
StopClients ==
    /\ main_pc = "stop_clients"
    /\ data_lock = NoThread
    /\ data_lock' = MainThread
    /\ sock_open' = [p \in Ports |-> sock_open[p] \ {clients[p]}]
    /\ clients' = [p \in Ports |-> 0]
    /\ main_pc' = "stop_locked"
    /\ UNCHANGED <<is_running, start_i, servers, server_open, threads, join_i,
                   joined, started>>
    /\ UNCHANGED <<listenerVars, netVars, handlerVars, dataVars,
                   r_quality_stats, r_now, events, histVars>>
    /\ UNCHANGED notReaderVars

\* leave the with block, then close every socket of self.servers
StopServers ==
    /\ main_pc = "stop_locked"
    /\ data_lock' = NoThread
    /\ server_open' = server_open \ servers
    /\ join_i' = 1
    /\ main_pc' = "stop_join"
    /\ UNCHANGED <<is_running, start_i, servers, threads, joined, started>>
    /\ UNCHANGED <<listenerVars, netVars, sock_open, clients, handlerVars,
                   dataVars, r_quality_stats, r_now, events, histVars>>
    /\ UNCHANGED notReaderVars

\* thread.join(timeout=2.0) on the next entry of self.threads: it returns
\* when the thread has ended or when the timeout has passed
StopJoin ==
    /\ main_pc = "stop_join"
    /\ join_i <= Len(threads)
    /\ joined' = joined \cup {threads[join_i]}
    /\ join_i' = join_i + 1
    /\ UNCHANGED <<is_running, main_pc, start_i, servers, server_open, threads,
                   started>>
    /\ UNCHANGED <<listenerVars, netVars, sock_open, clients, handlerVars,
                   data_lock, dataVars, r_quality_stats, r_now, events, histVars>>
    /\ UNCHANGED notReaderVars

StopReturns ==
    /\ main_pc = "stop_join"
    /\ join_i > Len(threads)
    /\ main_pc' = "stopped"
    /\ UNCHANGED <<is_running, start_i, servers, server_open, threads, join_i,
                   joined, started>>
    /\ UNCHANGED <<listenerVars, netVars, sock_open, clients, handlerVars,
                   data_lock, dataVars, r_quality_stats, r_now, events, histVars>>
    /\ UNCHANGED notReaderVars

(* ---- listener thread of port p: _tcp_server_listener ---- *)

\* `continue' and the end of the loop body lead to the test of
\* `while self.is_running', taken in the same step
LHead == IF is_running THEN "accept" ELSE "done"
HHead == IF is_running THEN "recv" ELSE "finally"

\* the thread begins: while self.is_running
LLoop(p) ==
    /\ lpc[p] = "loop"
    /\ lpc' = [lpc EXCEPT ![p] = LHead]
    /\ UNCHANGED <<mainVars, started, lloc, netVars, sock_open, clients,
                   handlerVars, data_lock, dataVars, r_quality_stats, r_now,
                   events, histVars>>
    /\ UNCHANGED notReaderVars

\* number of connections accepted so far, on all ports
Accepted == Cardinality({pc \in Ports \X Conns : pc[2] <= conn_count[pc[1]]})

\* a peer connects and server_sock.accept() returns the connection
LAccept(p) ==
    /\ lpc[p] = "accept"
    /\ p \in server_open
    /\ Accepted < MaxConns
    /\ conn_count' = [conn_count EXCEPT ![p] = @ + 1]
    /\ lloc' = [lloc EXCEPT ![p].client_sock = conn_count[p] + 1]
    /\ sock_open' = [sock_open EXCEPT ![p] = @ \cup {conn_count[p] + 1}]
    /\ lpc' = [lpc EXCEPT ![p] = "got"]
    /\ UNCHANGED <<mainVars, started, clients, handlerVars, data_lock,
                   dataVars, r_quality_stats, r_now, events, histVars>>
    /\ UNCHANGED notReaderVars

\* no peer connects and server_sock.accept() raises socket.timeout: continue
LAcceptTimeout(p) ==
    /\ lpc[p] = "accept"
    /\ p \in server_open
    /\ lpc' = [lpc EXCEPT ![p] = LHead]
    /\ UNCHANGED <<mainVars, started, lloc, netVars, sock_open, clients,
                   handlerVars, data_lock, dataVars, r_quality_stats, r_now,
                   events, histVars>>
    /\ UNCHANGED notReaderVars

\* server_sock.accept() raises another exception: the socket was closed by
\* stop_listening, or the system call failed on the open socket.  The handler
\* logs and loads the error counter when is_running, and breaks either way.
LAcceptError(p) ==
    /\ lpc[p] = "accept"
    /\ \/ /\ p \notin server_open
          /\ UNCHANGED accept_errors
       \/ /\ p \in server_open
          /\ accept_errors < MaxAcceptErrors
          /\ accept_errors' = accept_errors + 1
    /\ IF is_running
       THEN /\ lloc' = [lloc EXCEPT ![p].reg = r_quality_stats.tcp_connection_errors]
            /\ events' = [events EXCEPT !.tcp_connection_errors = @ + 1]
            /\ lpc' = [lpc EXCEPT ![p] = "st_err"]
       ELSE /\ lpc' = [lpc EXCEPT ![p] = "done"]
            /\ UNCHANGED <<lloc, events>>
    /\ UNCHANGED <<mainVars, started, netVars, sock_open, clients, handlerVars,
                   data_lock, dataVars, r_quality_stats, r_now, rejected, released>>
    /\ UNCHANGED notReaderVars

\* the store of quality_stats['tcp_connection_errors'] += 1, then break
LStoreError(p) ==
    /\ lpc[p] = "st_err"
    /\ r_quality_stats' = [r_quality_stats EXCEPT !.tcp_connection_errors = lloc[p].reg + 1]
    /\ lpc' = [lpc EXCEPT ![p] = "done"]
    /\ UNCHANGED <<mainVars, started, lloc, netVars, sock_open, clients,
                   handlerVars, data_lock, dataVars, r_now, events, histVars>>
    /\ UNCHANGED notReaderVars

\* a listener without the test "if port in self.clients": every accepted
\* connection is tracked and handed to a handler thread
LCheckClientNoTest(p) ==
    /\ lpc[p] = "got"
    /\ data_lock = NoThread
    /\ data_lock' = Listener(p)
    /\ clients' = [clients EXCEPT ![p] = lloc[p].client_sock]
    /\ lpc' = [lpc EXCEPT ![p] = "register"]
    /\ UNCHANGED <<sock_open, rejected>>
    /\ UNCHANGED <<mainVars, started, lloc, netVars, handlerVars, dataVars,
                   r_quality_stats, r_now, events, accept_errors, released>>
    /\ UNCHANGED notReaderVars

\* with self.data_lock: a tracked client means close and continue, else
\* self.clients[port] = client_sock
LCheckClient(p) ==
    /\ lpc[p] = "got"
    /\ data_lock = NoThread
    /\ data_lock' = Listener(p)
    /\ IF clients[p] # 0
       THEN /\ sock_open' = [sock_open EXCEPT ![p] = @ \ {lloc[p].client_sock}]
            /\ rejected' = [rejected EXCEPT ![p] = @ \cup {lloc[p].client_sock}]
            /\ lpc' = [lpc EXCEPT ![p] = "reject"]
            /\ UNCHANGED clients
       ELSE /\ clients' = [clients EXCEPT ![p] = lloc[p].client_sock]
            /\ lpc' = [lpc EXCEPT ![p] = "register"]
            /\ UNCHANGED <<sock_open, rejected>>
    /\ UNCHANGED <<mainVars, started, lloc, netVars, handlerVars, dataVars,
                   r_quality_stats, r_now, events, accept_errors, released>>
    /\ UNCHANGED notReaderVars

\* leaving the with block: to the loop head after a rejection, to the
\* thread creation after a registration
LUnlock(p) ==
    /\ lpc[p] \in {"reject", "register"}
    /\ data_lock' = NoThread
    /\ lpc' = [lpc EXCEPT ![p] = IF lpc[p] = "reject" THEN LHead ELSE "spawn"]
    /\ lloc' = [lloc EXCEPT ![p].client_sock =
                    IF lpc[p] = "reject" THEN 0 ELSE @]
    /\ UNCHANGED <<mainVars, started, netVars, sock_open, clients,
                   handlerVars, dataVars, r_quality_stats, r_now, events, histVars>>
    /\ UNCHANGED notReaderVars

\* client_thread.start(); the thread is not appended to self.threads
LSpawn(p) ==
    /\ lpc[p] = "spawn"
    /\ hpc' = [hpc EXCEPT ![p][lloc[p].client_sock] = "loop"]
    /\ started' = started \cup {Handler(p, lloc[p].client_sock)}
    /\ lpc' = [lpc EXCEPT ![p] = LHead]
    /\ lloc' = [lloc EXCEPT ![p].client_sock = 0]
    /\ UNCHANGED <<mainVars, netVars, sock_open, clients, hloc,
                   data_lock, dataVars, r_quality_stats, r_now, events, histVars>>
    /\ UNCHANGED notReaderVars

(* ---- handler thread of connection c on port p: _handle_client_connection ---- *)

\* the thread begins: settimeout, while self.is_running
HLoop(p, c) ==
    /\ hpc[p][c] = "loop"
    /\ hpc' = [hpc EXCEPT ![p][c] = HHead]
    /\ UNCHANGED <<mainVars, started, listenerVars, netVars, sock_open,
                   clients, hloc, data_lock, dataVars, r_quality_stats, r_now,
                   events, histVars>>
    /\ UNCHANGED notReaderVars

\* the reads of this specification are spaced beyond the timing tolerance
DeltasR == {dt \in Deltas : dt > expected_interval + timing_tolerance_ms}

\* what one recv returns here: one whole sample, finite or not
ChunksR == {S_One, S_Inf}

\* client_sock.recv(4096) returns data, dt after the previous time.time();
\* then timestamp = time.time() and the load of
\* quality_stats['total_packets_received'] += 1
HRecvData(p, c, data, dt) ==
    /\ hpc[p][c] = "recv"
    /\ c \in sock_open[p]
    /\ events.total_packets_received < MaxReadsR
    /\ StreamOfSamples(r_packet_buffers[p] \o data, {S_One, S_Inf})
    /\ r_now' = r_now + dt
    /\ hloc' = [hloc EXCEPT ![p][c].data = data,
                            ![p][c].timestamp = r_now + dt,
                            ![p][c].reg = r_quality_stats.total_packets_received]
    /\ events' = [events EXCEPT !.total_packets_received = @ + 1]
    /\ hpc' = [hpc EXCEPT ![p][c] = "st_total"]
    /\ UNCHANGED <<mainVars, started, listenerVars, netVars, sock_open,
                   clients, data_lock, dataVars, r_quality_stats, histVars>>
    /\ UNCHANGED notReaderVars

\* recv returns b'': the peer closed; break
HRecvEOF(p, c) ==
    /\ hpc[p][c] = "recv"
    /\ c \in sock_open[p]
    /\ hloc' = [hloc EXCEPT ![p][c].lost = is_running]
    /\ hpc' = [hpc EXCEPT ![p][c] = "finally"]
    /\ UNCHANGED <<mainVars, started, listenerVars, netVars, sock_open,
                   clients, data_lock, dataVars, r_quality_stats, r_now,
                   events, histVars>>
    /\ UNCHANGED notReaderVars

\* recv raises socket.timeout: continue
HRecvTimeout(p, c) ==
    /\ hpc[p][c] = "recv"
    /\ c \in sock_open[p]
    /\ hpc' = [hpc EXCEPT ![p][c] = HHead]
    /\ UNCHANGED <<mainVars, started, listenerVars, netVars, sock_open,
                   clients, hloc, data_lock, dataVars, r_quality_stats, r_now,
                   events, histVars>>
    /\ UNCHANGED notReaderVars

\* recv raises another exception: the socket was closed by stop_listening,
\* or the connection broke.  Log and load the error counter when is_running; break.
HRecvError(p, c) ==
    /\ hpc[p][c] = "recv"
    /\ IF is_running
       THEN /\ hloc' = [hloc EXCEPT ![p][c].reg = r_quality_stats.tcp_connection_errors,
                                    ![p][c].lost = TRUE]
            /\ events' = [events EXCEPT !.tcp_connection_errors = @ + 1]
            /\ hpc' = [hpc EXCEPT ![p][c] = "st_err"]
       ELSE /\ hpc' = [hpc EXCEPT ![p][c] = "finally"]
            /\ UNCHANGED <<hloc, events>>
    /\ UNCHANGED <<mainVars, started, listenerVars, netVars, sock_open,
                   clients, data_lock, dataVars, r_quality_stats, r_now, histVars>>
    /\ UNCHANGED notReaderVars

\* the store of quality_stats['tcp_connection_errors'] += 1, then break
HStoreError(p, c) ==
    /\ hpc[p][c] = "st_err"
    /\ r_quality_stats' = [r_quality_stats EXCEPT
                              !.tcp_connection_errors = hloc[p][c].reg + 1]
    /\ hpc' = [hpc EXCEPT ![p][c] = "finally"]
    /\ UNCHANGED <<mainVars, started, listenerVars, netVars, sock_open,
                   clients, hloc, data_lock, dataVars, r_now, events, histVars>>
    /\ UNCHANGED notReaderVars

\* _process_packet_data: the store of total_packets_received, the buffer
\* extension and the timing check with the load of timing_violations
HStoreTotal(p, c) ==
    /\ hpc[p][c] = "st_total"
    /\ r_packet_buffers' = [r_packet_buffers EXCEPT ![p] = @ \o hloc[p][c].data]
    /\ IF TimingViolation(hloc[p][c].timestamp, r_last_packet_times[p])
       THEN /\ r_quality_stats' = [r_quality_stats EXCEPT
                                      !.total_packets_received = hloc[p][c].reg + 1]
            /\ hloc' = [hloc EXCEPT ![p][c].reg = r_quality_stats.timing_violations]
            /\ events' = [events EXCEPT !.timing_violations = @ + 1]
            /\ hpc' = [hpc EXCEPT ![p][c] = "st_timing"]
       ELSE /\ r_quality_stats' = [r_quality_stats EXCEPT
                                      !.total_packets_received = hloc[p][c].reg + 1]
            /\ hpc' = [hpc EXCEPT ![p][c] = "frames"]
            /\ UNCHANGED <<hloc, events>>
    /\ UNCHANGED <<mainVars, started, listenerVars, netVars, sock_open,
                   clients, data_lock, r_last_packet_times, r_packet_counts,
                   r_latest_data, r_port_data_count, r_timestamp, r_intervals,
                   r_now, histVars>>
    /\ UNCHANGED notReaderVars

\* the store of quality_stats['timing_violations'] += 1
HStoreTiming(p, c) ==
    /\ hpc[p][c] = "st_timing"
    /\ r_quality_stats' = [r_quality_stats EXCEPT
                              !.timing_violations = hloc[p][c].reg + 1]
    /\ hpc' = [hpc EXCEPT ![p][c] = "frames"]
    /\ UNCHANGED <<mainVars, started, listenerVars, netVars, sock_open,
                   clients, hloc, data_lock, dataVars, r_now, events, histVars>>
    /\ UNCHANGED notReaderVars

\* head of the while loop over complete frames: return when fewer than
\* expected_packet_size bytes are buffered; else take a frame, parse it and
\* load the counter that the outcome increments
HFrames(p, c) ==
    /\ hpc[p][c] = "frames"
    /\ IF Len(r_packet_buffers[p]) < expected_packet_size
       THEN /\ hpc' = [hpc EXCEPT ![p][c] = HHead]
            /\ hloc' = [hloc EXCEPT ![p][c] = NoLocals]
            /\ UNCHANGED <<r_packet_buffers, events>>
       ELSE \E parsed \in {ParseFloatData(SubSeq(r_packet_buffers[p], 1,
                                                 expected_packet_size))} :
            /\ r_packet_buffers' = [r_packet_buffers EXCEPT ![p] =
                    SubSeq(@, expected_packet_size + 1, Len(@))]
            /\ IF parsed.value = NoValue
               THEN /\ hloc' = [hloc EXCEPT ![p][c].reg = r_quality_stats[parsed.counter]]
                    /\ events' = Bump(events, parsed.counter)
                    /\ hpc' = [hpc EXCEPT ![p][c] = "st_parse"]
               ELSE /\ hloc' = [hloc EXCEPT ![p][c].reg = r_quality_stats.valid_packets,
                                            ![p][c].value = parsed.value]
                    /\ events' = Bump(events, "valid_packets")
                    /\ hpc' = [hpc EXCEPT ![p][c] = "st_valid"]
    /\ UNCHANGED <<mainVars, started, listenerVars, netVars, sock_open,
                   clients, data_lock, r_last_packet_times, r_packet_counts,
                   r_latest_data, r_port_data_count, r_timestamp, r_intervals,
                   r_quality_stats, r_now, histVars>>
    /\ UNCHANGED notReaderVars

\* the store of quality_stats['parse_errors'] += 1 in _parse_float_data
HStoreParse(p, c) ==
    /\ hpc[p][c] = "st_parse"
    /\ r_quality_stats' = [r_quality_stats EXCEPT !.parse_errors = hloc[p][c].reg + 1]
    /\ hpc' = [hpc EXCEPT ![p][c] = "frames"]
    /\ UNCHANGED <<mainVars, started, listenerVars, netVars, sock_open,
                   clients, hloc, data_lock, dataVars, r_now, events, histVars>>
    /\ UNCHANGED notReaderVars

\* the store of quality_stats['valid_packets'] += 1, and packet_counts[port] += 1
HStoreValid(p, c) ==
    /\ hpc[p][c] = "st_valid"
    /\ r_quality_stats' = [r_quality_stats EXCEPT !.valid_packets = hloc[p][c].reg + 1]
    /\ r_packet_counts' = [r_packet_counts EXCEPT ![p] = @ + 1]
    /\ hpc' = [hpc EXCEPT ![p][c] = "write"]
    /\ UNCHANGED <<mainVars, started, listenerVars, netVars, sock_open,
                   clients, hloc, data_lock, r_packet_buffers,
                   r_last_packet_times, r_latest_data, r_port_data_count,
                   r_timestamp, r_intervals, r_now, events, histVars>>
    /\ UNCHANGED notReaderVars

\* with self.data_lock: slot, timestamp, per-port counter, interval,
\* last_packet_times
HWrite(p, c) ==
    /\ hpc[p][c] = "write"
    /\ data_lock = NoThread
    /\ data_lock' = Handler(p, c)
    /\ r_latest_data' = [r_latest_data EXCEPT ![p] = hloc[p][c].value]
    /\ r_timestamp' = hloc[p][c].timestamp
    /\ r_port_data_count' = [r_port_data_count EXCEPT ![p] = @ + 1]
    /\ r_intervals' = [r_intervals EXCEPT ![p] =
            IF r_last_packet_times[p] > 0
            THEN DequeAppend(@, hloc[p][c].timestamp - r_last_packet_times[p])
            ELSE @]
    /\ r_last_packet_times' = [r_last_packet_times EXCEPT ![p] = hloc[p][c].timestamp]
    /\ hpc' = [hpc EXCEPT ![p][c] = "written"]
    /\ UNCHANGED <<mainVars, started, listenerVars, netVars, sock_open,
                   clients, hloc, r_packet_buffers, r_packet_counts,
                   r_quality_stats, r_now, events, histVars>>
    /\ UNCHANGED notReaderVars

\* leaving the with block, back to the head of the frame loop
HUnlock(p, c) ==
    /\ hpc[p][c] = "written"
    /\ data_lock' = NoThread
    /\ hpc' = [hpc EXCEPT ![p][c] = "frames"]
    /\ UNCHANGED <<mainVars, started, listenerVars, netVars, sock_open,
                   clients, hloc, dataVars, r_quality_stats, r_now, events,
                   histVars>>
    /\ UNCHANGED notReaderVars

\* finally: client_sock.close(), then with self.data_lock:
\* if port in self.clients: del self.clients[port]
HFinally(p, c) ==
    /\ hpc[p][c] = "finally"
    /\ data_lock = NoThread
    /\ data_lock' = Handler(p, c)
    /\ sock_open' = [sock_open EXCEPT ![p] = @ \ {c}]
    /\ clients' = [clients EXCEPT ![p] = 0]
    /\ hpc' = [hpc EXCEPT ![p][c] = "fin_locked"]
    /\ UNCHANGED <<mainVars, started, listenerVars, netVars, hloc, dataVars,
                   r_quality_stats, r_now, events, histVars>>
    /\ UNCHANGED notReaderVars

\* leaving the with block; the thread ends
HFinallyUnlock(p, c) ==
    /\ hpc[p][c] = "fin_locked"
    /\ data_lock' = NoThread
    /\ released' = IF hloc[p][c].lost THEN released \cup {p} ELSE released
    /\ hpc' = [hpc EXCEPT ![p][c] = "done"]
    /\ hloc' = [hloc EXCEPT ![p][c] = NoLocals]
    /\ UNCHANGED <<mainVars, started, listenerVars, netVars, sock_open,
                   clients, dataVars, r_quality_stats, r_now, events,
                   accept_errors, rejected>>
    /\ UNCHANGED notReaderVars

NextReader ==
    \/ StartListening
    \/ StartServer
    \/ StartServerFails
    \/ StopSetFlag
    \/ StopClients
    \/ StopServers
    \/ StopJoin
    \/ StopReturns
    \/ \E p \in Ports :
          \/ LLoop(p)
          \/ LAccept(p)
          \/ LAcceptTimeout(p)
          \/ LAcceptError(p)
          \/ LStoreError(p)
          \/ LCheckClient(p)
          \/ LUnlock(p)
          \/ LSpawn(p)
          \/ \E c \in Conns :
                \/ HLoop(p, c)
                \/ \E data \in ChunksR : \E dt \in DeltasR : HRecvData(p, c, data, dt)
                \/ HRecvEOF(p, c)
                \/ HRecvTimeout(p, c)
                \/ HRecvError(p, c)
                \/ HStoreError(p, c)
                \/ HStoreTotal(p, c)
                \/ HStoreTiming(p, c)
                \/ HFrames(p, c)
                \/ HStoreParse(p, c)
                \/ HStoreValid(p, c)
                \/ HWrite(p, c)
                \/ HUnlock(p, c)
                \/ HFinally(p, c)
                \/ HFinallyUnlock(p, c)

(***************************************************************************)
(* SpecRx: MATLABTCPReceiver with one TCPPortReceiver per port, in server  *)
(* mode.  Time is in seconds.  A thread in a blocking call (accept, recv,  *)
(* sleep, join) carries the time at which the call gives up; time passes   *)
(* only while every thread is in a blocking call that has not yet run out. *)
(***************************************************************************)
MaxTime == 6
MaxReadsX == 2
rx_timeout == 1
reconnect_delay == 5
error_sleep == 1
join_timeout == 2
queue_maxsize == 1000

NoWrite == [port |-> -1, holder |-> -1]

InitRx ==
    /\ m_is_running = FALSE
    /\ m_pc = "init"
    /\ m_i = 0
    /\ m_deadline = 0
    /\ x_is_running = [i \in Ports |-> FALSE]
    /\ x_pc = [i \in Ports |-> "none"]
    /\ x_socket = [i \in Ports |-> "none"]
    /\ x_float_bytes = [i \in Ports |-> <<>>]
    /\ x_deadline = [i \in Ports |-> 0]
    /\ x_stats = [i \in Ports |-> [packets_received |-> 0, bytes_received |-> 0,
                                   parse_errors |-> 0, last_receive_time |-> 0]]
    /\ x_queue = [i \in Ports |-> 0]
    /\ x_conn_count = [i \in Ports |-> 0]
    /\ x_accept_errors = 0
    /\ x_reads = 0
    /\ x_stop_time = [i \in Ports |-> -1]
    /\ device_data = [i \in Ports |-> Dbl_Zero]
    /\ device_lock = -1
    /\ x_last_write = NoWrite
    /\ x_now = 0

\* MATLABTCPReceiver.start: device_data is zeroed and every receiver started
MStart ==
    /\ m_pc = "init"
    /\ m_is_running' = TRUE
    /\ device_data' = [i \in Ports |-> Dbl_Zero]
    /\ x_is_running' = [i \in Ports |-> TRUE]
    /\ x_pc' = [i \in Ports |-> "loop"]
    /\ m_pc' = "running"
    /\ UNCHANGED <<m_i, m_deadline, x_socket, x_float_bytes, x_deadline,
                   x_stats, x_queue, x_conn_count, x_accept_errors, x_reads,
                   x_stop_time, device_lock, x_last_write, x_now>>
    /\ UNCHANGED notRxVars

\* MATLABTCPReceiver.stop: clear the flag and begin the loop over receivers
MStop ==
    /\ m_pc = "running"
    /\ m_is_running' = FALSE
    /\ m_i' = 0
    /\ m_pc' = "stopping"
    /\ UNCHANGED <<m_deadline, x_is_running, x_pc, x_socket, x_float_bytes,
                   x_deadline, x_stats, x_queue, x_conn_count, x_accept_errors,
                   x_reads, x_stop_time, device_data, device_lock,
                   x_last_write, x_now>>
    /\ UNCHANGED notRxVars

\* TCPPortReceiver.stop up to the join: clear is_running, close self.socket
\* when there is one, call thread.join(timeout=2.0)
MStopReceiver ==
    /\ m_pc = "stopping"
    /\ x_is_running' = [x_is_running EXCEPT ![m_i] = FALSE]
    /\ x_stop_time' = [x_stop_time EXCEPT ![m_i] = x_now]
    /\ x_socket' = [x_socket EXCEPT ![m_i] = IF @ = "none" THEN "none" ELSE "closed"]
    /\ m_deadline' = x_now + join_timeout
    /\ m_pc' = "joining"
    /\ UNCHANGED <<m_is_running, m_i, x_pc, x_float_bytes, x_deadline, x_stats,
                   x_queue, x_conn_count, x_accept_errors, x_reads,
                   device_data, device_lock, x_last_write, x_now>>
    /\ UNCHANGED notRxVars

\* the join returns, the thread having ended or the timeout having passed;
\* stop goes on to the next receiver
MJoinReturns ==
    /\ m_pc = "joining"
    /\ x_pc[m_i] = "done" \/ x_now = m_deadline
    /\ m_i' = m_i + 1
    /\ m_pc' = IF m_i + 1 = NumPorts THEN "stopped" ELSE "stopping"
    /\ UNCHANGED <<m_is_running, m_deadline, x_is_running, x_pc, x_socket,
                   x_float_bytes, x_deadline, x_stats, x_queue, x_conn_count,
                   x_accept_errors, x_reads, x_stop_time, device_data,
                   device_lock, x_last_write, x_now>>
    /\ UNCHANGED notRxVars

\* _run, head of the outer loop: leave when is_running is false; without a
\* connected socket call _connect, which binds and enters its accept loop;
\* with one, start a new float and call recv
XLoop(i) ==
    /\ x_pc[i] = "loop"
    /\ x_float_bytes' = [x_float_bytes EXCEPT ![i] = <<>>]
    /\ IF ~x_is_running[i]
       THEN /\ x_pc' = [x_pc EXCEPT ![i] = "done"]
            /\ UNCHANGED x_deadline
       ELSE /\ x_pc' = [x_pc EXCEPT ![i] = IF x_socket[i] = "open" THEN "recv"
                                                               ELSE "accept"]
            /\ x_deadline' = [x_deadline EXCEPT ![i] = x_now + rx_timeout]
    /\ UNCHANGED <<m_is_running, m_pc, m_i, m_deadline, x_is_running, x_socket,
                   x_stats, x_queue, x_conn_count, x_accept_errors, x_reads,
                   x_stop_time, device_data, device_lock, x_last_write, x_now>>
    /\ UNCHANGED notRxVars

\* number of connections accepted so far, by all receivers
AcceptedX == Cardinality({ic \in Ports \X Conns : ic[2] <= x_conn_count[ic[1]]})

\* _connect: accept returns a connection; back in _run the read of a float
\* begins unless is_running went false
XAccept(i) ==
    /\ x_pc[i] = "accept"
    /\ AcceptedX < MaxConns
    /\ x_conn_count' = [x_conn_count EXCEPT ![i] = @ + 1]
    /\ x_socket' = [x_socket EXCEPT ![i] = "open"]
    /\ x_pc' = [x_pc EXCEPT ![i] = IF x_is_running[i] THEN "recv" ELSE "loop"]
    /\ x_deadline' = [x_deadline EXCEPT ![i] = x_now + rx_timeout]
    /\ UNCHANGED <<m_is_running, m_pc, m_i, m_deadline, x_is_running,
                   x_float_bytes, x_stats, x_queue, x_accept_errors, x_reads,
                   x_stop_time, device_data, device_lock, x_last_write, x_now>>
    /\ UNCHANGED notRxVars

\* after a timeout or the sleep that follows an accept error: the test of
\* `while self.is_running' in _connect; when false _connect returns False
\* and _run sleeps reconnect_delay
AfterAccept(i) ==
    /\ x_pc' = [x_pc EXCEPT ![i] = IF x_is_running[i] THEN "accept" ELSE "retry_sleep"]
    /\ x_deadline' = [x_deadline EXCEPT ![i] =
            x_now + (IF x_is_running[i] THEN rx_timeout ELSE reconnect_delay)]

\* _connect: accept raises socket.timeout
XAcceptTimeout(i) ==
    /\ x_pc[i] = "accept"
    /\ x_now = x_deadline[i]
    /\ AfterAccept(i)
    /\ UNCHANGED <<m_is_running, m_pc, m_i, m_deadline, x_is_running, x_socket,
                   x_float_bytes, x_stats, x_queue, x_conn_count,
                   x_accept_errors, x_reads, x_stop_time, device_data,
                   device_lock, x_last_write, x_now>>
    /\ UNCHANGED notRxVars

\* _connect: accept raises another exception: log and time.sleep(1.0)
XAcceptError(i) ==
    /\ x_pc[i] = "accept"
    /\ x_accept_errors < MaxAcceptErrors
    /\ x_accept_errors' = x_accept_errors + 1
    /\ x_pc' = [x_pc EXCEPT ![i] = "accept_sleep"]
    /\ x_deadline' = [x_deadline EXCEPT ![i] = x_now + error_sleep]
    /\ UNCHANGED <<m_is_running, m_pc, m_i, m_deadline, x_is_running, x_socket,
                   x_float_bytes, x_stats, x_queue, x_conn_count, x_reads,
                   x_stop_time, device_data, device_lock, x_last_write, x_now>>
    /\ UNCHANGED notRxVars

\* a time.sleep ends: after an accept error back to the loop test of
\* _connect, otherwise `continue' to the head of the loop of _run
XSleepEnds(i) ==
    /\ x_pc[i] \in {"accept_sleep", "retry_sleep", "err_sleep"}
    /\ x_now = x_deadline[i]
    /\ IF x_pc[i] = "accept_sleep"
       THEN AfterAccept(i)
       ELSE /\ x_pc' = [x_pc EXCEPT ![i] = "loop"]
            /\ UNCHANGED x_deadline
    /\ UNCHANGED <<m_is_running, m_pc, m_i, m_deadline, x_is_running, x_socket,
                   x_float_bytes, x_stats, x_queue, x_conn_count,
                   x_accept_errors, x_reads, x_stop_time, device_data,
                   device_lock, x_last_write, x_now>>
    /\ UNCHANGED notRxVars

\* _parse_float with is_big_endian = False: None for a wrong length, a NaN
\* or an infinity
ParseFloatRx(data) ==
    IF Len(data) # 8 THEN NoValue
    ELSE IF ~IsFinite(UnpackLE(data)) THEN NoValue
    ELSE UnpackLE(data)

\* what one recv(8 - len(float_bytes)) can return
ChunksX == {S_One, S_Inf, SubSeq(S_One, 1, 7), SubSeq(S_One, 8, 8)}

\* a complete float: bytes_received, _parse_float, and for a value the
\* counters, put_nowait and the callback, which stores into device_data;
\* an exception of put_nowait or of the callback is swallowed
XFrame(i, float_bytes) ==
    \E float_value \in {ParseFloatRx(float_bytes)} :
       /\ x_stats' = [x_stats EXCEPT
             ![i].bytes_received = @ + 8,
             ![i].parse_errors = IF float_value = NoValue THEN @ + 1 ELSE @,
             ![i].packets_received = IF float_value = NoValue THEN @ ELSE @ + 1,
             ![i].last_receive_time = IF float_value = NoValue THEN @ ELSE x_now]
       /\ IF float_value # NoValue /\ x_queue[i] < queue_maxsize
          THEN /\ x_queue' = [x_queue EXCEPT ![i] = @ + 1]
               /\ device_data' = [device_data EXCEPT ![i] = float_value]
               /\ x_last_write' = [port |-> i, holder |-> device_lock]
          ELSE UNCHANGED <<x_queue, device_data, x_last_write>>

\* recv returns bytes: a complete float is processed and the outer loop
\* starts over; an incomplete one leads to the next recv while is_running
XRecv(i, chunk) ==
    /\ x_pc[i] = "recv"
    /\ x_socket[i] = "open"
    /\ x_reads < MaxReadsX
    /\ Len(chunk) <= 8 - Len(x_float_bytes[i])
    /\ StreamOfSamples(x_float_bytes[i] \o chunk, {S_One, S_Inf})
    /\ x_reads' = x_reads + 1
    /\ IF Len(x_float_bytes[i] \o chunk) = 8
       THEN /\ XFrame(i, x_float_bytes[i] \o chunk)
            /\ x_float_bytes' = [x_float_bytes EXCEPT ![i] = <<>>]
            /\ x_pc' = [x_pc EXCEPT ![i] = "loop"]
            /\ UNCHANGED x_deadline
       ELSE /\ x_float_bytes' = [x_float_bytes EXCEPT ![i] = @ \o chunk]
            /\ x_pc' = [x_pc EXCEPT ![i] = IF x_is_running[i] THEN "recv" ELSE "loop"]
            /\ x_deadline' = [x_deadline EXCEPT ![i] = x_now + rx_timeout]
            /\ UNCHANGED <<x_stats, x_queue, device_data, x_last_write>>
    /\ UNCHANGED <<m_is_running, m_pc, m_i, m_deadline, x_is_running, x_socket,
                   x_conn_count, x_accept_errors, x_stop_time, device_lock, x_now>>
    /\ UNCHANGED notRxVars

\* recv returns b'': close the socket, self.socket = None, break
XRecvEOF(i) ==
    /\ x_pc[i] = "recv"
    /\ x_socket[i] = "open"
    /\ x_socket' = [x_socket EXCEPT ![i] = "none"]
    /\ x_pc' = [x_pc EXCEPT ![i] = "loop"]
    /\ UNCHANGED <<m_is_running, m_pc, m_i, m_deadline, x_is_running,
                   x_float_bytes, x_deadline, x_stats, x_queue, x_conn_count,
                   x_accept_errors, x_reads, x_stop_time, device_data,
                   device_lock, x_last_write, x_now>>
    /\ UNCHANGED notRxVars

\* recv raises socket.timeout: continue
XRecvTimeout(i) ==
    /\ x_pc[i] = "recv"
    /\ x_socket[i] = "open"
    /\ x_now = x_deadline[i]
    /\ x_pc' = [x_pc EXCEPT ![i] = "loop"]
    /\ UNCHANGED <<m_is_running, m_pc, m_i, m_deadline, x_is_running, x_socket,
                   x_float_bytes, x_deadline, x_stats, x_queue, x_conn_count,
                   x_accept_errors, x_reads, x_stop_time, device_data,
                   device_lock, x_last_write, x_now>>
    /\ UNCHANGED notRxVars

\* recv raises another exception, the socket having been closed by stop or
\* the connection having broken: close, self.socket = None, time.sleep(1.0)
XRecvError(i) ==
    /\ x_pc[i] = "recv"
    /\ x_socket' = [x_socket EXCEPT ![i] = "none"]
    /\ x_pc' = [x_pc EXCEPT ![i] = "err_sleep"]
    /\ x_deadline' = [x_deadline EXCEPT ![i] = x_now + error_sleep]
    /\ UNCHANGED <<m_is_running, m_pc, m_i, m_deadline, x_is_running,
                   x_float_bytes, x_stats, x_queue, x_conn_count,
                   x_accept_errors, x_reads, x_stop_time, device_data,
                   device_lock, x_last_write, x_now>>
    /\ UNCHANGED notRxVars

\* one second passes: no thread is at a step it takes without waiting, and
\* no blocking call has reached its deadline
Tick ==
    /\ x_now < MaxTime
    /\ m_pc \in {"running", "joining", "stopped"}
    /\ m_pc = "joining" => (x_pc[m_i] # "done" /\ m_deadline >= x_now + 1)
    /\ \A i \in Ports :
          \/ x_pc[i] = "done"
          \/ /\ x_pc[i] \in {"accept", "recv", "accept_sleep", "retry_sleep",
                             "err_sleep"}
             /\ x_deadline[i] >= x_now + 1
    /\ x_now' = x_now + 1
    /\ UNCHANGED <<m_is_running, m_pc, m_i, m_deadline, x_is_running, x_pc,
                   x_socket, x_float_bytes, x_deadline, x_stats, x_queue,
                   x_conn_count, x_accept_errors, x_reads, x_stop_time,
                   device_data, device_lock, x_last_write>>
    /\ UNCHANGED notRxVars

NextRx ==
    \/ MStart
    \/ MStop
    \/ MStopReceiver
    \/ MJoinReturns
    \/ Tick
    \/ \E i \in Ports :
          \/ XLoop(i)
          \/ XAccept(i)
          \/ XAcceptTimeout(i)
          \/ XAcceptError(i)
          \/ XSleepEnds(i)
          \/ \E chunk \in ChunksX : XRecv(i, chunk)
          \/ XRecvEOF(i)
          \/ XRecvTimeout(i)
          \/ XRecvError(i)

(***************************************************************************)
(* SpecEnc: the magnetometer and reaction-wheel encoders.  A Python float  *)
(* is a whole number n, a NaN, an infinity, or 1e300 with a sign (a finite *)
(* double beyond the range of a 32-bit float and of any threshold).        *)
(***************************************************************************)
MaxCalls == 2

Fin(n) == [kind |-> "fin", n |-> n]
NaN == [kind |-> "nan", n |-> 0]
PosInf == [kind |-> "inf", n |-> 1]
NegInf == [kind |-> "inf", n |-> -1]
PosHuge == [kind |-> "huge", n |-> 1]
NegHuge == [kind |-> "huge", n |-> -1]

Sign(n) == IF n < 0 THEN -1 ELSE IF n > 0 THEN 1 ELSE 0

\* x > c and x < c for a float x and a threshold of c hundredths
FloatGt(x, c) ==
    CASE x.kind = "nan" -> FALSE
      [] x.kind \in {"inf", "huge"} -> x.n > 0
      [] OTHER -> x.n * 100 > c
FloatLt(x, c) ==
    CASE x.kind = "nan" -> FALSE
      [] x.kind \in {"inf", "huge"} -> x.n < 0
      [] OTHER -> x.n * 100 < c

\* abs(x)
FloatAbs(x) == [x EXCEPT !.n = Abs(x.n)]

\* a * b in double arithmetic: the product of two of 1e300 overflows to an
\* infinity, without an exception
FloatMul(a, b) ==
    IF a.kind = "nan" \/ b.kind = "nan" THEN NaN
    ELSE IF a.kind = "fin" /\ b.kind = "fin" THEN Fin(a.n * b.n)
    ELSE IF a.n = 0 \/ b.n = 0
         THEN (IF a.kind = "inf" \/ b.kind = "inf" THEN NaN ELSE Fin(0))
    ELSE IF a.kind = "inf" \/ b.kind = "inf" \/ (a.kind = "huge" /\ b.kind = "huge")
         THEN [kind |-> "inf", n |-> Sign(a.n) * Sign(b.n)]
    ELSE [kind |-> "huge", n |-> Sign(a.n) * Sign(b.n)]

NoException == "none"

\* int(x) & 0xFFFF: int raises for a NaN and for an infinity; the integer
\* 10**300 has its low 16 bits clear
IntAnd16(x) ==
    CASE x.kind = "nan" -> [raised |-> "ValueError", v |-> 0]
      [] x.kind = "inf" -> [raised |-> "OverflowError", v |-> 0]
      [] x.kind = "huge" -> [raised |-> NoException, v |-> 0]
      [] OTHER -> [raised |-> NoException, v |-> x.n % 65536]

\* struct.pack('>H', v) and struct.pack('<H', v)
PackBE16(v) == <<v \div 256, v % 256>>
PackLE16(v) == <<v % 256, v \div 256>>

RECURSIVE Log2Floor(_)
Log2Floor(n) == IF n < 2 THEN 0 ELSE 1 + Log2Floor(n \div 2)

\* struct.pack('>f', x): the IEEE-754 single of a whole number below 2^24,
\* of a NaN and of an infinity; OverflowError for 1e300
PackBE32(x) ==
    CASE x.kind = "nan" -> [raised |-> NoException, bytes |-> <<127, 192, 0, 0>>]
      [] x.kind = "inf" ->
            [raised |-> NoException,
             bytes |-> <<IF x.n < 0 THEN 255 ELSE 127, 128, 0, 0>>]
      [] x.kind = "huge" -> [raised |-> "OverflowError", bytes |-> <<>>]
      [] x.n = 0 -> [raised |-> NoException, bytes |-> <<0, 0, 0, 0>>]
      [] OTHER ->
            LET e == Log2Floor(Abs(x.n))
                biased == e + 127
                mant == (Abs(x.n) - Pow2(e)) * Pow2(23 - e)
            IN [raised |-> NoException,
                bytes |-> <<(IF x.n < 0 THEN 128 ELSE 0) + biased \div 2,
                            (biased % 2) * 128 + mant \div 65536,
                            (mant \div 256) % 256,
                            mant % 256>>]

RECURSIVE BitXor(_, _)
BitXor(a, b) ==
    IF a = 0 THEN b
    ELSE IF b = 0 THEN a
    ELSE ((a + b) % 2) + 2 * BitXor(a \div 2, b \div 2)

\* the inner loop of _calculate_crc16: k shifts, each followed by the
\* XOR with 0xA001 when the bit shifted out was set
RECURSIVE Crc16Bits(_, _)
Crc16Bits(crc, k) ==
    IF crc % 2 = 1
    THEN (IF k = 0 THEN crc ELSE Crc16Bits(BitXor(crc \div 2, 40961), k - 1))
    ELSE (IF k = 0 THEN crc ELSE Crc16Bits(crc \div 2, k - 1))

\* the outer loop of _calculate_crc16 from position i of data
RECURSIVE Crc16From(_, _, _)
Crc16From(crc, data, i) ==
    IF crc >= 0 /\ i > Len(data) THEN crc % 65536
    ELSE Crc16From(Crc16Bits(BitXor(crc, data[i]), 8), data, i + 1)

\* RS485Encoder._calculate_crc16
CalculateCrc16(data) == Crc16From(65535, data, 1)

RECURSIVE XorAll(_)
XorAll(data) == IF data = <<>> THEN 0 ELSE BitXor(Head(data), XorAll(Tail(data)))

\* RWAMessageEncoder._calculate_crc
CalculateCrc(data) == XorAll(data) % 256

\* the exception of the first element that raised, in evaluation order
RECURSIVE FirstRaised(_)
FirstRaised(results) ==
    IF results = <<>> THEN NoException
    ELSE IF Head(results).raised # NoException THEN Head(results).raised
    ELSE FirstRaised(Tail(results))

Raised(call, exception) == [call |-> call, raised |-> exception, frame |-> <<>>]
Returned(call, frame) == [call |-> call, raised |-> NoException, frame |-> frame]

(* ---- magnetometer ---- *)

MagStatus == [NORMAL |-> 0, WARNING |-> 1, ERROR |-> 2, CRITICAL |-> 3]

\* the finite field values used here are multiples of 100 nT, so that the
\* square of the magnitude is a whole number of (100 nT)^2
SumOfSquares(fields) ==
    (fields[1].n \div 100) * (fields[1].n \div 100)
    + (fields[2].n \div 100) * (fields[2].n \div 100)
    + (fields[3].n \div 100) * (fields[3].n \div 100)

\* MagnetometerEncoder._update_status: x**2 raises OverflowError for 1e300;
\* a NaN magnitude fails every comparison; an infinite one exceeds 100000
UpdateStatus(fields, temperature) ==
    IF \E i \in 1..3 : fields[i].kind = "huge"
    THEN [raised |-> "OverflowError", status |-> MagStatus.NORMAL]
    ELSE [raised |-> NoException,
          status |->
            IF FloatLt(temperature, -4000) \/ FloatGt(temperature, 8500)
            THEN MagStatus.CRITICAL
            ELSE IF \E i \in 1..3 : fields[i].kind = "nan" THEN MagStatus.NORMAL
            ELSE IF \E i \in 1..3 : fields[i].kind = "inf" THEN MagStatus.ERROR
            ELSE IF SumOfSquares(fields) < 100 * 100
                    \/ SumOfSquares(fields) > 1000 * 1000
                 THEN MagStatus.ERROR
            ELSE IF SumOfSquares(fields) < 200 * 200
                    \/ SumOfSquares(fields) > 800 * 800
                 THEN MagStatus.WARNING
            ELSE MagStatus.NORMAL]

\* CANEncoder.encode_magdata
EncodeMagdataCAN(fields, status) ==
    LET ints == <<IntAnd16(fields[1]), IntAnd16(fields[2]), IntAnd16(fields[3])>>
    IN IF FirstRaised(ints) # NoException
       THEN Raised("can", FirstRaised(ints))
       ELSE Returned("can", PackBE16(ints[1].v) \o PackBE16(ints[2].v)
                            \o PackBE16(ints[3].v) \o <<status>>)

\* RS485Encoder.encode_magdata with message_type MAGDATA; struct.pack('<BBH')
\* raises struct.error for a sequence counter above 65535
EncodeMagdataRS485(fields, status, seq) ==
    LET ints == <<IntAnd16(fields[1]), IntAnd16(fields[2]), IntAnd16(fields[3])>>
        header == <<1, 1>> \o PackLE16(seq)
        data == PackLE16(ints[1].v) \o PackLE16(ints[2].v)
                \o PackLE16(ints[3].v) \o <<status>>
    IN IF seq > 65535 THEN Raised("rs485", "struct.error")
       ELSE IF FirstRaised(ints) # NoException
       THEN Raised("rs485", FirstRaised(ints))
       ELSE Returned("rs485", header \o <<1>> \o data
                              \o PackLE16(CalculateCrc16(header \o <<1>> \o data)))

(* ---- reaction wheel ---- *)

\* ReactionWheelEncoder.convert_rwa_data: power, status and mode of the packet
\* for matlab_data = [wheel_speed, motor_current, temperature, bus_voltage]
ConvertRwaData(v) ==
    [wheel_speed |-> v[1],
     motor_current |-> v[2],
     temperature |-> v[3],
     bus_voltage |-> v[4],
     power_consumption |-> FloatAbs(FloatMul(v[2], v[4])),
     status |-> IF FloatGt(v[1], 420000) \/ FloatGt(v[2], 976)
                   \/ FloatGt(v[4], 4200) \/ FloatLt(v[4], 1900)
                THEN "CRITICAL"
                ELSE IF FloatGt(v[1], 400000) \/ FloatGt(v[2], 800)
                        \/ FloatGt(v[4], 4000) \/ FloatLt(v[4], 2000)
                THEN "WARNING"
                ELSE "NORMAL",
     mode |-> IF FloatLt(FloatAbs(v[1]), 1000) THEN "STANDBY" ELSE "OPERATE"]

\* RWAMessageEncoder._build_status_byte
BuildStatusByte(packet) ==
    (IF packet.status = "FAULT" THEN 128 ELSE 0)
    + (IF packet.mode = "STANDBY" THEN 1 ELSE 0)

\* RWAMessageEncoder._build_health_status_word
BuildHealthStatusWord(packet) ==
    (IF FloatGt(packet.motor_current, 976) THEN 1 ELSE 0)
    + (IF FloatGt(packet.bus_voltage, 4200) THEN 2 ELSE 0)
    + (IF FloatLt(packet.bus_voltage, 1900) THEN 4 ELSE 0)
    + (IF FloatGt(packet.wheel_speed, 420000) THEN 128 ELSE 0)

\* RWAMessageEncoder.encode_health_status with rwa_address = 0x01
EncodeHealthStatus(packet) ==
    LET floats == <<PackBE32(packet.temperature), PackBE32(packet.bus_voltage),
                    PackBE32(packet.power_consumption)>>
        message == <<1, 21, BuildStatusByte(packet), 0, 0, 0, 1>>
                   \o PackLE16(BuildHealthStatusWord(packet)) \o <<0>>
                   \o floats[1].bytes \o floats[2].bytes \o floats[3].bytes
    IN IF FirstRaised(floats) # NoException
       THEN Raised("rw_health", FirstRaised(floats))
       ELSE Returned("rw_health", message \o <<CalculateCrc(Tail(message))>>)

(* ---- calls ---- *)

MagValues == {Fin(25000), Fin(-5000), NaN, PosInf, PosHuge}
RwValues == {Fin(28), NaN, PosInf, NegHuge}

\* field vectors of a magnitude between 20000 and 80000 nT with a component
\* beyond 32767 nT
StrongFieldVectors ==
    {<<Fin(40000), Fin(-5000), Fin(25000)>>,
     <<Fin(25000), Fin(-40000), Fin(-5000)>>}

MagVectors == [1..3 -> MagValues] \cup StrongFieldVectors

\* a wheel beyond 4200 rpm in either direction, the other inputs nominal
FastWheelVectors ==
    {<<Fin(4300), Fin(1), Fin(28), Fin(28)>>,
     <<Fin(-4300), Fin(1), Fin(28), Fin(28)>>}

RwVectors == [1..4 -> RwValues] \cup FastWheelVectors

NoResult == [call |-> "none", raised |-> NoException, frame |-> <<>>]

\* the numbers of frames an RS485Encoder instance may have returned before
\* the calls followed here: a new instance, and one whose 16-bit sequence
\* field has reached its last value
PriorCalls == {0, 65535}

InitEnc ==
    /\ sequence_counter \in PriorCalls
    /\ rs485_calls = sequence_counter
    /\ enc_seq_before = sequence_counter
    /\ mag_message_counter = 0
    /\ rw_message_counter = 0
    /\ enc_calls = 0
    /\ enc_input = <<>>
    /\ enc_result = NoResult

\* MagnetometerEncoder.process_matlab_data_can on a 3-float vector
ProcessMatlabDataCan(v) ==
    /\ enc_calls < MaxCalls
    /\ enc_calls' = enc_calls + 1
    /\ enc_input' = v
    /\ \E st \in {UpdateStatus(v, Fin(25))} :
          IF st.raised # NoException
          THEN /\ enc_result' = Raised("can", st.raised)
               /\ UNCHANGED mag_message_counter
          ELSE /\ enc_result' = EncodeMagdataCAN(v, st.status)
               /\ mag_message_counter' = mag_message_counter + 1
    /\ UNCHANGED <<sequence_counter, rw_message_counter, rs485_calls,
                   enc_seq_before>>
    /\ UNCHANGED notEncVars

\* MagnetometerEncoder.process_matlab_data_rs485 on a 3-float vector; the
\* sequence counter advances when encode_magdata returns
ProcessMatlabDataRs485(v) ==
    /\ enc_calls < MaxCalls
    /\ enc_calls' = enc_calls + 1
    /\ enc_input' = v
    /\ \E st \in {UpdateStatus(v, Fin(25))} :
          IF st.raised # NoException
          THEN /\ enc_result' = Raised("rs485", st.raised)
               /\ UNCHANGED <<mag_message_counter, sequence_counter,
                              rs485_calls>>
          ELSE /\ enc_result' = EncodeMagdataRS485(v, st.status, sequence_counter)
               /\ rs485_calls' = rs485_calls + 1
               /\ mag_message_counter' = mag_message_counter + 1
               /\ sequence_counter' =
                     IF EncodeMagdataRS485(v, st.status, sequence_counter).raised
                            = NoException
                     THEN sequence_counter + 1 ELSE sequence_counter
    /\ enc_seq_before' = sequence_counter
    /\ UNCHANGED rw_message_counter
    /\ UNCHANGED notEncVars

\* ReactionWheelEncoder.convert_matlab_data on a 4-float vector, then
\* encode_health_status
RwHealthStatus(v) ==
    /\ enc_calls < MaxCalls
    /\ enc_calls' = enc_calls + 1
    /\ enc_input' = v
    /\ rw_message_counter' = rw_message_counter + 1
    /\ enc_result' = EncodeHealthStatus(ConvertRwaData(v))
    /\ UNCHANGED <<sequence_counter, mag_message_counter, rs485_calls,
                   enc_seq_before>>
    /\ UNCHANGED notEncVars

NextEnc ==
    \/ \E v \in MagVectors : ProcessMatlabDataCan(v)
    \/ \E v \in MagVectors : ProcessMatlabDataRs485(v)
    \/ \E v \in RwVectors : RwHealthStatus(v)

(***************************************************************************)
(* SpecArs: the rate-sensor encoder (installer_complete/device_encoders/   *)
(* ars_encoder.py).  A float is here a whole number n of quarters of the   *)
(* angular-rate LSB (n * 600 * 2^-23 / 4 rad/s, always within +-1e6), a    *)
(* NaN, an infinity, or 1e300 with a sign.  All these are exact doubles,   *)
(* and so are their quotients by the two scale factors.                    *)
(***************************************************************************)
MaxCallsA == 5

\* MessageEncoder.ANGULAR_RATE_SCALE, in units of a quarter of the rate LSB
ANGULAR_RATE_SCALE == 4
\* one unit over MessageEncoder.ANGLE_SCALE: (600 * 2^-23 / 4) / 2^-27
UnitOverANGLE_SCALE == 2400
\* the whole units in the discrepancy threshold 0.1 rad/s (5592.4 units)
DiscrepancyThreshold == 5592

\* int(n / d) of Python: the quotient truncated toward zero
TruncDiv(n, d) == IF n >= 0 THEN n \div d ELSE 0 - ((0 - n) \div d)

\* max(lo, min(hi, x))
Clamp(lo, hi, x) == Max(lo, Min(hi, x))

\* MessageEncoder.encode_angular_rate: the integer that is packed.  A NaN
\* passes the extreme-value test, int() raises ValueError for it and the
\* outer handler packs 0; an infinity and 1e300 are clamped to +-1e6 and
\* then saturated.
EncodeAngularRate(x) ==
    CASE x.kind = "nan" -> 0
      [] x.kind \in {"inf", "huge"} -> IF x.n > 0 THEN 32767 ELSE -32768
      [] OTHER -> Clamp(-32768, 32767, TruncDiv(x.n, ANGULAR_RATE_SCALE))

\* MessageEncoder.encode_angle: the integer that is packed
EncodeAngle(x) ==
    CASE x.kind = "nan" -> 0
      [] x.kind \in {"inf", "huge"} ->
            IF x.n > 0 THEN 2147483647 ELSE -2147483647 - 1
      [] OTHER -> Clamp(-2147483647 - 1, 2147483647, x.n * UnitOverANGLE_SCALE)

\* struct.pack('<h', v)
PackLE16Signed(v) == PackLE16(IF v < 0 THEN v + 65536 ELSE v)

\* struct.pack('<i', v): for a negative v the complement of the bytes of -v-1
PackLE32Signed(v) ==
    LET u == IF v < 0 THEN 0 - (v + 1) ELSE v
        weight == <<1, 256, 65536, 16777216>>
    IN [i \in 1..4 |->
          IF v < 0 THEN 255 - ((u \div weight[i]) % 256)
          ELSE (u \div weight[i]) % 256]

RECURSIVE SumBytes(_)
SumBytes(data) == IF data = <<>> THEN 0 ELSE Head(data) + SumBytes(Tail(data))

\* StatusWordBuilder.build_status_word_1
BuildStatusWord1(counter, bit_mode, rate_sensor_failed, gyro_failed, agc_voltage_failed) ==
    (counter % 4) + (bit_mode % 4) * 4
    + (IF rate_sensor_failed THEN 16 ELSE 0)
    + (IF gyro_failed THEN 32 ELSE 0)
    + (IF agc_voltage_failed THEN 128 ELSE 0)

\* StatusWordBuilder.build_status_word_2
BuildStatusWord2(gyro_temperature_a, motor_bias_voltage_failed, start_data_flag, processor_failed, memory_failed) ==
    (gyro_temperature_a % 256)
    + (IF motor_bias_voltage_failed THEN 256 ELSE 0)
    + (IF start_data_flag THEN 512 ELSE 0)
    + (IF processor_failed THEN 1024 ELSE 0)
    + (IF memory_failed THEN 2048 ELSE 0)

\* StatusWordBuilder.build_status_word_3
BuildStatusWord3(gyro_a_start_run, gyro_b_start_run, gyro_c_start_run, gyro_a_fdc, gyro_b_fdc, gyro_c_fdc, fdc_failed, rs_ok) ==
    (IF gyro_a_start_run THEN 256 ELSE 0)
    + (IF gyro_b_start_run THEN 512 ELSE 0)
    + (IF gyro_c_start_run THEN 1024 ELSE 0)
    + (IF gyro_a_fdc THEN 2048 ELSE 0)
    + (IF gyro_b_fdc THEN 4096 ELSE 0)
    + (IF gyro_c_fdc THEN 8192 ELSE 0)
    + (IF fdc_failed THEN 16384 ELSE 0)
    + (IF rs_ok THEN 32768 ELSE 0)

\* an encode_message that leaves the three status words out of the frame
EncodeMessageNoStatusWords(packet) ==
    LET body == PackLE16Signed(EncodeAngularRate(packet.angular_rate[1]))
                \o PackLE16Signed(EncodeAngularRate(packet.angular_rate[2]))
                \o PackLE16Signed(EncodeAngularRate(packet.angular_rate[3]))
                \o PackLE32Signed(EncodeAngle(packet.summed_angle[1]))
                \o PackLE32Signed(EncodeAngle(packet.summed_angle[2]))
                \o PackLE32Signed(EncodeAngle(packet.summed_angle[3]))
    IN <<170>> \o body \o PackLE16(SumBytes(body) % 65536)

\* MessageEncoder.encode_message
EncodeMessage(packet) ==
    LET body == PackLE16Signed(EncodeAngularRate(packet.angular_rate[1]))
                \o PackLE16Signed(EncodeAngularRate(packet.angular_rate[2]))
                \o PackLE16Signed(EncodeAngularRate(packet.angular_rate[3]))
                \o PackLE16(packet.status_word_1)
                \o PackLE16(packet.status_word_2)
                \o PackLE16(packet.status_word_3)
                \o PackLE32Signed(EncodeAngle(packet.summed_angle[1]))
                \o PackLE32Signed(EncodeAngle(packet.summed_angle[2]))
                \o PackLE32Signed(EncodeAngle(packet.summed_angle[3]))
    IN <<170>> \o body \o PackLE16(SumBytes(body) % 65536)

\* x != 0 for a float: true of a NaN
NonZero(x) == x.kind # "fin" \/ x.n # 0

\* abs(a - b) in double arithmetic: inf - inf is a NaN, 1e300 - 1e300 is 0
AbsDifference(a, b) ==
    IF a.kind = "nan" \/ b.kind = "nan" THEN NaN
    ELSE IF a.kind = "inf" /\ b.kind = "inf"
         THEN (IF a.n = b.n THEN NaN ELSE PosInf)
    ELSE IF a.kind = "inf" \/ b.kind = "inf" THEN PosInf
    ELSE IF a.kind = "huge" /\ b.kind = "huge"
         THEN (IF a.n = b.n THEN Fin(0) ELSE PosHuge)
    ELSE IF a.kind = "huge" \/ b.kind = "huge" THEN PosHuge
    ELSE Fin(Abs(a.n - b.n))

\* a > b for two such differences: false when either is a NaN
DifferenceGt(a, b) ==
    /\ a.kind # "nan"
    /\ b.kind # "nan"
    /\ CASE a.kind = "inf" -> b.kind # "inf"
         [] a.kind = "huge" -> b.kind = "fin"
         [] OTHER -> b.kind = "fin" /\ a.n > b.n

\* max(a, b, c) of Python: the first argument unless a later one is greater
PyMax3(a, b, c) ==
    LET m == IF DifferenceGt(b, a) THEN b ELSE a
    IN IF DifferenceGt(c, m) THEN c ELSE m

\* ARSEncoder._update_status_words: the three status words of the packet
UpdateStatusWords(ars_data, message_counter) ==
    LET has_data ==
            \/ \E i \in 1..3 : NonZero(ars_data.prime[i])
            \/ \E i \in 1..3 : NonZero(ars_data.redundant[i])
        max_rate_diff ==
            PyMax3(AbsDifference(ars_data.prime[1], ars_data.redundant[1]),
                   AbsDifference(ars_data.prime[2], ars_data.redundant[2]),
                   AbsDifference(ars_data.prime[3], ars_data.redundant[3]))
        has_discrepancy ==
            CASE max_rate_diff.kind = "nan" -> FALSE
              [] max_rate_diff.kind \in {"inf", "huge"} -> TRUE
              [] OTHER -> max_rate_diff.n > DiscrepancyThreshold
    IN [status_word_1 |->
            BuildStatusWord1(message_counter % 4, 1, ~has_data,
                             has_discrepancy, FALSE),
        status_word_2 |-> BuildStatusWord2(25, FALSE, FALSE, FALSE, FALSE),
        status_word_3 |->
            BuildStatusWord3(has_data, has_data, has_data, has_discrepancy,
                             has_discrepancy, has_discrepancy, has_discrepancy,
                             has_data /\ ~has_discrepancy)]

\* a convert_ars_data that builds the status words without the message
\* counter
ConvertArsDataNoCounter(ars_data, message_counter) ==
    LET words == UpdateStatusWords(ars_data, 0)
    IN [angular_rate |-> ars_data.prime,
        summed_angle |-> ars_data.prime_angle,
        status_word_1 |-> words.status_word_1,
        status_word_2 |-> words.status_word_2,
        status_word_3 |-> words.status_word_3,
        message_counter |-> message_counter]

\* ARSEncoder.convert_ars_data: the packet, built from the prime channels
\* with the message counter as it is before the increment
ConvertArsData(ars_data, message_counter) ==
    LET words == UpdateStatusWords(ars_data, message_counter)
    IN [angular_rate |-> ars_data.prime,
        summed_angle |-> ars_data.prime_angle,
        status_word_1 |-> words.status_word_1,
        status_word_2 |-> words.status_word_2,
        status_word_3 |-> words.status_word_3,
        message_counter |-> message_counter]

\* ARSEncoder._add_variation with variation_percent = 0.1: what value *
\* (1 + uniform(-0.001, 0.001)) can be, at the two ends and in the middle
\* of its range; a NaN, an infinity and 1e300 come back unchanged
AddVariation(value) ==
    IF value.kind # "fin" THEN {value}
    ELSE {Fin(value.n - Abs(value.n) \div 1000), value,
          Fin(value.n + Abs(value.n) \div 1000)}

\* the ARSData records ARSEncoder.convert_matlab_data can build from
\* matlab_data: none for a length other than 6 and 12, and none for 6
\* floats without duplicate_to_redundant
ArsDataOf(matlab_data, duplicate) ==
    IF Len(matlab_data) = 12
    THEN {[prime |-> SubSeq(matlab_data, 1, 3),
           redundant |-> SubSeq(matlab_data, 4, 6),
           prime_angle |-> SubSeq(matlab_data, 7, 9),
           redundant_angle |-> SubSeq(matlab_data, 10, 12)]}
    ELSE IF Len(matlab_data) = 6 /\ duplicate
    THEN {[prime |-> SubSeq(matlab_data, 1, 3),
           redundant |-> <<r1, r2, r3>>,
           prime_angle |-> SubSeq(matlab_data, 4, 6),
           redundant_angle |-> <<a1, a2, a3>>] :
              r1 \in AddVariation(matlab_data[1]),
              r2 \in AddVariation(matlab_data[2]),
              r3 \in AddVariation(matlab_data[3]),
              a1 \in AddVariation(matlab_data[4]),
              a2 \in AddVariation(matlab_data[5]),
              a3 \in AddVariation(matlab_data[6])}
    ELSE {}

(* ---- calls ---- *)

ArsValues == {Fin(0), Fin(3), Fin(-7), Fin(8), Fin(160000), NaN, PosInf,
              NegInf, PosHuge}
ArsAngles == {Fin(0), Fin(-7), NaN, NegInf, PosHuge}

\* 12 floats: prime rates, redundant rates, prime angles, redundant angles
Vector12(px, rx, ax) ==
    <<px, Fin(0), Fin(0), rx, Fin(0), Fin(0), ax, Fin(0), Fin(0), ax, Fin(0), Fin(0)>>

\* 6 floats: prime rates, prime angles
Vector6(px, ax) == <<px, Fin(0), Fin(0), ax, Fin(0), Fin(0)>>

\* 6 floats with a prime rate of +-6000000 units (107.3 rad/s)
FastRateVectors == {Vector6(Fin(6000000), Fin(0)), Vector6(Fin(-6000000), Fin(0))}

\* the input vectors: 12 floats, 6 floats, and vectors of a wrong length
ArsVectors ==
    {Vector12(px, rx, Fin(-7)) : px \in ArsValues, rx \in {Fin(0), Fin(8)}}
    \cup {Vector12(Fin(0), Fin(0), ax) : ax \in ArsAngles}
    \cup {Vector6(px, NaN) : px \in ArsValues}
    \cup {Vector6(Fin(0), ax) : ax \in ArsAngles}
    \cup {<<>>, <<Fin(8), Fin(8)>>,
          <<Fin(8), Fin(8), Fin(8), Fin(8), Fin(8), Fin(8), Fin(8)>>}
    \cup FastRateVectors

NoArsResult == [returned |-> "nothing", frame |-> <<>>]

InitArs ==
    /\ duplicate_to_redundant \in BOOLEAN
    /\ ars_message_counter = 0
    /\ ars_calls = 0
    /\ ars_frames = 0
    /\ ars_input = <<>>
    /\ ars_result = NoArsResult
    /\ ars_counter_before = 0
    /\ ars_seen_nonzero = FALSE

\* a process_matlab_data that counts every call, the calls without a packet
\* included
ProcessMatlabDataCountingCalls(matlab_data) ==
    /\ ars_calls < MaxCallsA
    /\ ars_calls' = ars_calls + 1
    /\ ars_input' = matlab_data
    /\ ars_counter_before' = ars_message_counter
    /\ ars_message_counter' = ars_message_counter + 1
    /\ IF ArsDataOf(matlab_data, duplicate_to_redundant) = {}
       THEN /\ ars_result' = [returned |-> "None", frame |-> <<>>]
            /\ UNCHANGED <<ars_frames, ars_seen_nonzero>>
       ELSE \E ars_data \in ArsDataOf(matlab_data, duplicate_to_redundant) :
            /\ ars_result' =
                  [returned |-> "frame",
                   frame |-> EncodeMessage(
                                ConvertArsData(ars_data, ars_message_counter))]
            /\ ars_frames' = ars_frames + 1
            /\ ars_seen_nonzero' =
                  (ars_seen_nonzero
                   \/ \E i \in 1..3 : (NonZero(ars_data.prime[i])
                                       \/ NonZero(ars_data.redundant[i])))
    /\ UNCHANGED duplicate_to_redundant
    /\ UNCHANGED notArsVars

\* ARSEncoder.process_matlab_data(matlab_data): convert_matlab_data, and for
\* a packet convert_ars_data, which increments the message counter, and
\* encode_packet; None without a packet
ProcessMatlabData(matlab_data) ==
    /\ ars_calls < MaxCallsA
    /\ ars_calls' = ars_calls + 1
    /\ ars_input' = matlab_data
    /\ ars_counter_before' = ars_message_counter
    /\ IF ArsDataOf(matlab_data, duplicate_to_redundant) = {}
       THEN /\ ars_result' = [returned |-> "None", frame |-> <<>>]
            /\ UNCHANGED <<ars_message_counter, ars_frames, ars_seen_nonzero>>
       ELSE \E ars_data \in ArsDataOf(matlab_data, duplicate_to_redundant) :
            /\ ars_result' =
                  [returned |-> "frame",
                   frame |-> EncodeMessage(
                                ConvertArsData(ars_data, ars_message_counter))]
            /\ ars_message_counter' = ars_message_counter + 1
            /\ ars_frames' = ars_frames + 1
            /\ ars_seen_nonzero' =
                  (ars_seen_nonzero
                   \/ \E i \in 1..3 : (NonZero(ars_data.prime[i])
                                       \/ NonZero(ars_data.redundant[i])))
    /\ UNCHANGED duplicate_to_redundant
    /\ UNCHANGED notArsVars

NextArs == \E matlab_data \in ArsVectors : ProcessMatlabData(matlab_data)

(***************************************************************************)
(* SpecStatus: one ARSStatusManager.  MagnetometerStatusManager has the    *)
(* same get_current_status_config and force_scenario over its own enum and *)
(* parameter sets.  time.time() is a clock in whole ticks that the         *)
(* environment advances between calls.                                     *)
(***************************************************************************)
MaxSmCalls == 4
MaxTimeS == 6

\* the values of ARSStatusScenario
KnownScenarios == {"normal", "warning", "error", "fault"}

\* ARSStatusManager.status_configs: the ARSStatusConfig of each scenario
StatusConfigs ==
    [normal |->
        [bit_mode |-> 1, rate_sensor_failed |-> FALSE, gyro_failed |-> FALSE,
         agc_voltage_failed |-> FALSE, gyro_temperature_a |-> 25,
         motor_bias_voltage_failed |-> FALSE, start_data_flag |-> FALSE,
         processor_failed |-> FALSE, memory_failed |-> FALSE,
         gyro_a_start_run |-> TRUE, gyro_b_start_run |-> TRUE,
         gyro_c_start_run |-> TRUE, gyro_a_fdc |-> FALSE,
         gyro_b_fdc |-> FALSE, gyro_c_fdc |-> FALSE, fdc_failed |-> FALSE,
         rs_ok |-> TRUE],
     warning |->
        [bit_mode |-> 1, rate_sensor_failed |-> FALSE, gyro_failed |-> FALSE,
         agc_voltage_failed |-> TRUE, gyro_temperature_a |-> 35,
         motor_bias_voltage_failed |-> FALSE, start_data_flag |-> FALSE,
         processor_failed |-> FALSE, memory_failed |-> FALSE,
         gyro_a_start_run |-> TRUE, gyro_b_start_run |-> TRUE,
         gyro_c_start_run |-> TRUE, gyro_a_fdc |-> FALSE,
         gyro_b_fdc |-> FALSE, gyro_c_fdc |-> FALSE, fdc_failed |-> FALSE,
         rs_ok |-> TRUE],
     error |->
        [bit_mode |-> 1, rate_sensor_failed |-> TRUE, gyro_failed |-> FALSE,
         agc_voltage_failed |-> TRUE, gyro_temperature_a |-> 45,
         motor_bias_voltage_failed |-> TRUE, start_data_flag |-> FALSE,
         processor_failed |-> FALSE, memory_failed |-> FALSE,
         gyro_a_start_run |-> TRUE, gyro_b_start_run |-> TRUE,
         gyro_c_start_run |-> TRUE, gyro_a_fdc |-> FALSE,
         gyro_b_fdc |-> FALSE, gyro_c_fdc |-> FALSE, fdc_failed |-> FALSE,
         rs_ok |-> FALSE],
     fault |->
        [bit_mode |-> 2, rate_sensor_failed |-> TRUE, gyro_failed |-> TRUE,
         agc_voltage_failed |-> TRUE, gyro_temperature_a |-> 55,
         motor_bias_voltage_failed |-> TRUE, start_data_flag |-> TRUE,
         processor_failed |-> TRUE, memory_failed |-> TRUE,
         gyro_a_start_run |-> FALSE, gyro_b_start_run |-> FALSE,
         gyro_c_start_run |-> FALSE, gyro_a_fdc |-> TRUE,
         gyro_b_fdc |-> TRUE, gyro_c_fdc |-> TRUE, fdc_failed |-> TRUE,
         rs_ok |-> FALSE]]

\* the scenario lists and cycle intervals a manager is made with, and the
\* names force_scenario is called with; "degraded" is no ARSStatusScenario
GivenScenarios ==
    {<<"warning", "error", "fault">>, <<"fault", "degraded", "normal">>,
     <<"fault">>, <<>>}
CycleIntervals == {1, 2}
ForcedNames == {"fault", "degraded"}

\* scenarios or ["normal"]
ScenariosOr(given) == IF given = <<>> THEN <<"normal">> ELSE given

\* self.scenarios.index(scenario): 0-based index of the first occurrence
IndexOf(list, scenario) ==
    (CHOOSE i \in 1..Len(list) :
        list[i] = scenario /\ \A j \in 1..(i - 1) : list[j] # scenario) - 1

\* a test that lets the scenario advance only after more than the interval
CycleDueStrict(now, last, interval) == now - last > interval

\* current_time - self.last_cycle_time >= self.cycle_interval
CycleDue(now, last, interval) == now - last >= interval

\* an entry of the log of calls: the call, the scenario name it was given
\* or looked up, the time, what it returned, whether it logged a warning;
\* neither call raises
LogEntry(call, scenario, config, warning) ==
    [call |-> call, scenario |-> scenario, time |-> sm_now,
     config |-> config, warning |-> warning, raised |-> FALSE]

InitStatus ==
    /\ enabled \in BOOLEAN
    /\ cycle_interval \in CycleIntervals
    /\ \E given \in GivenScenarios : scenarios = ScenariosOr(given)
    /\ current_scenario_index = 0
    /\ last_cycle_time = 0
    /\ sm_now = 0
    /\ sm_log = <<>>

\* ARSStatusManager.get_current_status_config
GetCurrentStatusConfig ==
    /\ Len(sm_log) < MaxSmCalls
    /\ IF ~enabled \/ scenarios = <<>>
       THEN /\ sm_log' = Append(sm_log,
                    LogEntry("get_current_status_config", "",
                             StatusConfigs["normal"], FALSE))
            /\ UNCHANGED <<current_scenario_index, last_cycle_time>>
       ELSE LET due == CycleDue(sm_now, last_cycle_time, cycle_interval)
                index == IF due
                         THEN (current_scenario_index + 1) % Len(scenarios)
                         ELSE current_scenario_index
                current_scenario == scenarios[index + 1]
            IN /\ current_scenario_index' = index
               /\ last_cycle_time' = IF due THEN sm_now ELSE last_cycle_time
               /\ sm_log' = Append(sm_log,
                    IF current_scenario \in KnownScenarios
                    THEN LogEntry("get_current_status_config",
                                  current_scenario,
                                  StatusConfigs[current_scenario], FALSE)
                    ELSE LogEntry("get_current_status_config",
                                  current_scenario,
                                  StatusConfigs["normal"], TRUE))
    /\ UNCHANGED <<enabled, cycle_interval, scenarios, sm_now>>
    /\ UNCHANGED notStatusVars

\* ARSStatusManager.force_scenario(scenario); it returns nothing
ForceScenario(scenario) ==
    /\ Len(sm_log) < MaxSmCalls
    /\ IF \E i \in 1..Len(scenarios) : scenarios[i] = scenario
       THEN /\ current_scenario_index' = IndexOf(scenarios, scenario)
            /\ last_cycle_time' = sm_now
            /\ sm_log' = Append(sm_log,
                    LogEntry("force_scenario", scenario, <<>>, FALSE))
       ELSE /\ sm_log' = Append(sm_log,
                    LogEntry("force_scenario", scenario, <<>>, TRUE))
            /\ UNCHANGED <<current_scenario_index, last_cycle_time>>
    /\ UNCHANGED <<enabled, cycle_interval, scenarios, sm_now>>
    /\ UNCHANGED notStatusVars

\* time passes between two calls
TickS ==
    /\ sm_now < MaxTimeS
    /\ sm_now' = sm_now + 1
    /\ UNCHANGED <<enabled, cycle_interval, scenarios, current_scenario_index,
                   last_cycle_time, sm_log>>
    /\ UNCHANGED notStatusVars

NextStatus ==
    \/ GetCurrentStatusConfig
    \/ \E scenario \in ForcedNames : ForceScenario(scenario)
    \/ TickS

(***************************************************************************)
(* SpecTx: a SerialTransmitter and a CANTransmitter.  Whether the serial   *)
(* port or the CAN bus can be opened is the environment's choice at each   *)
(* connect(); the transmit queue is a Queue() without a size limit, of     *)
(* which the model follows the first MaxQueued entries.                    *)
(***************************************************************************)
MaxQueued == 2

Transmitters == {"serial", "can"}

NoTxResult == [call |-> "none", tx |-> "none", returned |-> "nothing"]

TxResult(call, t, returned) == [call |-> call, tx |-> t, returned |-> returned]

InitTx ==
    /\ is_connected = [t \in Transmitters |-> FALSE]
    /\ port_open = [t \in Transmitters |-> FALSE]
    /\ transmit_queue = [t \in Transmitters |-> 0]
    /\ thread_alive = [t \in Transmitters |-> FALSE]
    /\ stop_event = [t \in Transmitters |-> FALSE]
    /\ connect_failed = [t \in Transmitters |-> FALSE]
    /\ tx_result = NoTxResult

\* SerialTransmitter.connect, CANTransmitter.connect: the port is opened
ConnectOpens(t) ==
    /\ port_open' = [port_open EXCEPT ![t] = TRUE]
    /\ is_connected' = [is_connected EXCEPT ![t] = TRUE]
    /\ connect_failed' = [connect_failed EXCEPT ![t] = FALSE]
    /\ tx_result' = TxResult("connect", t, TRUE)
    /\ UNCHANGED <<transmit_queue, thread_alive, stop_event>>
    /\ UNCHANGED notTxVars

\* connect: serial.Serial(...) or can.Bus(...) raises; the port object of an
\* earlier connect stays where it is
ConnectFails(t) ==
    /\ is_connected' = [is_connected EXCEPT ![t] = FALSE]
    /\ connect_failed' = [connect_failed EXCEPT ![t] = TRUE]
    /\ tx_result' = TxResult("connect", t, FALSE)
    /\ UNCHANGED <<port_open, transmit_queue, thread_alive, stop_event>>
    /\ UNCHANGED notTxVars

\* disconnect: the thread sees stop_event and is joined; an open port is
\* closed, and only then is is_connected cleared
Disconnect(t) ==
    /\ stop_event' = [stop_event EXCEPT ![t] = TRUE]
    /\ thread_alive' = [thread_alive EXCEPT ![t] = FALSE]
    /\ IF port_open[t]
       THEN /\ port_open' = [port_open EXCEPT ![t] = FALSE]
            /\ is_connected' = [is_connected EXCEPT ![t] = FALSE]
       ELSE UNCHANGED <<port_open, is_connected>>
    /\ tx_result' = TxResult("disconnect", t, "nothing")
    /\ UNCHANGED <<transmit_queue, connect_failed>>
    /\ UNCHANGED notTxVars

\* start_transmission
StartTransmission(t) ==
    /\ IF ~is_connected[t]
       THEN /\ tx_result' = TxResult("start_transmission", t, FALSE)
            /\ UNCHANGED <<stop_event, thread_alive>>
       ELSE /\ stop_event' = [stop_event EXCEPT ![t] = FALSE]
            /\ thread_alive' = [thread_alive EXCEPT ![t] = TRUE]
            /\ tx_result' = TxResult("start_transmission", t, TRUE)
    /\ UNCHANGED <<is_connected, port_open, transmit_queue, connect_failed>>
    /\ UNCHANGED notTxVars

\* SerialTransmitter.send_data, CANTransmitter.send_message
SendData(t) ==
    /\ transmit_queue[t] < MaxQueued
    /\ IF ~is_connected[t]
       THEN /\ tx_result' = TxResult("send", t, FALSE)
            /\ UNCHANGED transmit_queue
       ELSE /\ transmit_queue' = [transmit_queue EXCEPT ![t] = @ + 1]
            /\ tx_result' = TxResult("send", t, TRUE)
    /\ UNCHANGED <<is_connected, port_open, thread_alive, stop_event,
                   connect_failed>>
    /\ UNCHANGED notTxVars

\* one turn of _transmit_loop that takes an entry from the queue
TransmitLoop(t) ==
    /\ thread_alive[t]
    /\ ~stop_event[t]
    /\ transmit_queue[t] > 0
    /\ transmit_queue' = [transmit_queue EXCEPT ![t] = @ - 1]
    /\ UNCHANGED <<is_connected, port_open, thread_alive, stop_event,
                   connect_failed, tx_result>>
    /\ UNCHANGED notTxVars

NextTx ==
    \/ \E t \in Transmitters : ConnectOpens(t)
    \/ \E t \in Transmitters : ConnectFails(t)
    \/ \E t \in Transmitters : Disconnect(t)
    \/ \E t \in Transmitters : StartTransmission(t)
    \/ \E t \in Transmitters : SendData(t)
    \/ \E t \in Transmitters : TransmitLoop(t)

(***************************************************************************)
(* SpecErr: one ErrorHandler and the ErrorContext its caller passes.  The  *)
(* caller sets the type and the severity of the context before a call;     *)
(* callbacks and recovery strategies return or raise as they are           *)
(* registered to.                                                          *)
(***************************************************************************)
MaxErrors == 4

\* ErrorContext.max_retries
max_retries == 3

\* the values of ErrorType
ErrorTypes ==
    {"connection", "data_processing", "encoding", "transmission",
     "configuration", "hardware", "network", "system"}

\* the types and severities of the errors handled here, the type whose
\* callbacks and the type whose recovery strategy are registered
HandledTypes == {"connection", "data_processing", "system"}
HandledSeverities == {"medium", "critical"}
CallbackType == "system"
StrategyType == "data_processing"
StrategyOutcomes == {"True", "False", "raises"}

\* self.error_stats[error_type][field] += 1
Bumped(stats, error_type, field) ==
    [stats EXCEPT ![error_type][field] = @ + 1]

\* a handler that counts the first error of a type only
CountErrorOnce(stats, error_type) ==
    IF stats[error_type].total_errors = 0
    THEN Bumped(stats, error_type, "total_errors")
    ELSE stats

\* ErrorHandler.handle_error: the update of total_errors
CountError(stats, error_type) == Bumped(stats, error_type, "total_errors")

\* time.sleep(min(2 ** context.retry_count, 30)) of _recover_connection_error
BackoffDelay(retry_count) == Min(Pow2(retry_count), 30)

\* a recovery that allows one retry more than max_retries
RecoverySuccessOneMore(ctx) ==
    IF recovery_strategies[ctx.error_type] # "none"
    THEN recovery_strategies[ctx.error_type] = "True"
    ELSE CASE ctx.error_type = "connection" ->
                  ctx.retry_count <= max_retries
           [] ctx.error_type \in {"data_processing", "encoding",
                                  "transmission"} -> TRUE
           [] OTHER -> ctx.severity # "critical"

\* ErrorHandler._attempt_recovery and _default_recovery: whether recovery
\* succeeded, for the context as it is passed
RecoverySuccess(ctx) ==
    IF recovery_strategies[ctx.error_type] # "none"
    THEN recovery_strategies[ctx.error_type] = "True"
    ELSE CASE ctx.error_type = "connection" ->
                  ctx.retry_count < max_retries
           [] ctx.error_type \in {"data_processing", "encoding",
                                  "transmission"} -> TRUE
           [] OTHER -> ctx.severity # "critical"

RECURSIVE SumTotals(_, _, _)
SumTotals(stats, types, field) ==
    IF types = {} THEN 0
    ELSE LET t == CHOOSE x \in types : TRUE
         IN stats[t][field] + SumTotals(stats, types \ {t}, field)

\* ErrorHandler.get_error_statistics: the three totals
GetErrorStatistics ==
    [total_errors |-> SumTotals(error_stats, ErrorTypes, "total_errors"),
     recovered_errors |->
         SumTotals(error_stats, ErrorTypes, "recovered_errors"),
     failed_recoveries |->
         SumTotals(error_stats, ErrorTypes, "failed_recoveries")]

InitErr ==
    /\ error_stats = [t \in ErrorTypes |->
                        [total_errors |-> 0, recovered_errors |-> 0,
                         failed_recoveries |-> 0]]
    /\ error_callbacks = [t \in ErrorTypes |-> <<>>]
    /\ recovery_strategies = [t \in ErrorTypes |-> "none"]
    /\ context = [error_type |-> "system", severity |-> "medium",
                  retry_count |-> 0, error_count |-> 0]
    /\ handle_calls = 0
    /\ eh_result = "nothing"
    /\ connection_errors = 0
    /\ backoff_delay = 0

\* ErrorHandler.register_error_callback: a callback that raises
RegisterErrorCallback ==
    /\ Len(error_callbacks[CallbackType]) < 1
    /\ error_callbacks' =
          [error_callbacks EXCEPT ![CallbackType] = Append(@, "raises")]
    /\ UNCHANGED <<error_stats, recovery_strategies, context, handle_calls,
                   eh_result, connection_errors, backoff_delay>>
    /\ UNCHANGED notErrVars

\* ErrorHandler.register_recovery_strategy
RegisterRecoveryStrategy(outcome) ==
    /\ recovery_strategies[StrategyType] # outcome
    /\ recovery_strategies' =
          [recovery_strategies EXCEPT ![StrategyType] = outcome]
    /\ UNCHANGED <<error_stats, error_callbacks, context, handle_calls,
                   eh_result, connection_errors, backoff_delay>>
    /\ UNCHANGED notErrVars

\* ErrorHandler.handle_error(error, context) for a context of this type and
\* severity; an exception of a callback or of a strategy is caught inside
HandleError(error_type, severity) ==
    /\ handle_calls < MaxErrors
    /\ handle_calls' = handle_calls + 1
    /\ LET ctx == [context EXCEPT !.error_type = error_type,
                                  !.severity = severity,
                                  !.error_count = @ + 1]
           success == RecoverySuccess(ctx)
           retried == /\ recovery_strategies[error_type] = "none"
                      /\ error_type = "connection"
                      /\ success
       IN /\ context' = [ctx EXCEPT !.retry_count =
                                       IF retried THEN @ + 1 ELSE @]
          /\ error_stats' =
                Bumped(CountError(error_stats, error_type), error_type,
                       IF success THEN "recovered_errors"
                       ELSE "failed_recoveries")
          /\ eh_result' = success
          /\ backoff_delay' = IF retried
                              THEN BackoffDelay(ctx.retry_count + 1)
                              ELSE backoff_delay
    /\ connection_errors' = IF error_type = "connection"
                            THEN connection_errors + 1 ELSE connection_errors
    /\ UNCHANGED <<error_callbacks, recovery_strategies>>
    /\ UNCHANGED notErrVars

\* ErrorHandler.reset_error_context
ResetErrorContext ==
    /\ context.retry_count > 0
    /\ context' = [context EXCEPT !.retry_count = 0, !.error_count = 0]
    /\ connection_errors' = 0
    /\ UNCHANGED <<error_stats, error_callbacks, recovery_strategies,
                   handle_calls, eh_result, backoff_delay>>
    /\ UNCHANGED notErrVars

NextErr ==
    \/ RegisterErrorCallback
    \/ \E outcome \in StrategyOutcomes : RegisterRecoveryStrategy(outcome)
    \/ \E error_type \in HandledTypes, severity \in HandledSeverities :
          HandleError(error_type, severity)
    \/ ResetErrorContext

(***************************************************************************)
(* SpecUdp: EndiannessDetector and the socket listener of the UDP reader   *)
(* (ars_socket_reader_endianness.py).  Its three scorers and its parser    *)
(* are not those of the TCP reader.                                        *)
(*                                                                         *)
(* A confidence is a number r - sqrt(q) with rationals r and q >= 0: the   *)
(* consistency scorer returns 1.0 - variation, and the variation (standard *)
(* deviation over mean) is the square root of a rational.                  *)
(***************************************************************************)
MaxDatagrams == 11

\* the datagrams a peer of the UDP reader sends: whole samples and a short one
UdpAlphabet == {S_One, S_BEOne, S_Zero, S_NaN}
UdpDatagrams == UdpAlphabet \cup {SubSeq(S_One, 1, 7)}

RatSub(a, b) == Rat(a.n * b.d - b.n * a.d, a.d * b.d)
RatMul(a, b) == Rat(a.n * b.n, a.d * b.d)
RatOne == Rat(1, 1)

Surd(r, q) == [rational |-> r, minus_root |-> q]
\* a + b, where at most one of the two has a root
SurdAdd(a, b) ==
    Surd(RatAdd(a.rational, b.rational),
         IF a.minus_root = RatZero THEN b.minus_root ELSE a.minus_root)
\* a / 3.0
SurdThird(a) ==
    Surd(Rat(a.rational.n, 3 * a.rational.d),
         Rat(a.minus_root.n, 9 * a.minus_root.d))
\* r - sqrt(q) > threshold
SurdGt(a, threshold) ==
    LET gap == RatSub(a.rational, threshold)
    IN RatLess(RatZero, gap) /\ RatLess(a.minus_root, RatMul(gap, gap))

UdpResult(is_big_endian, confidence) ==
    [is_big_endian |-> is_big_endian, confidence |-> confidence]

UdpValuesLE(samples) == [i \in 1..Len(samples) |-> UnpackLE(samples[i])]
UdpValuesBE(samples) == [i \in 1..Len(samples) |-> UnpackBE(samples[i])]

\* (1.0 if reasonable else 0.5) * (1.0 if valid else 0.0), in halves
UdpRangeScore(values) ==
    (IF \A i \in 1..Len(values) : AbsLt(values[i], Dbl_1000) THEN 2 ELSE 1)
    * (IF \A i \in 1..Len(values) : IsFinite(values[i]) THEN 1 ELSE 0)

UdpDetectByRange(samples) ==
    IF samples = <<>> THEN UdpResult(FALSE, Surd(RatZero, RatZero))
    ELSE LET le_score == UdpRangeScore(UdpValuesLE(samples))
             be_score == UdpRangeScore(UdpValuesBE(samples))
         IN IF le_score > be_score
            THEN UdpResult(FALSE, Surd(Rat(le_score, 2), RatZero))
            ELSE UdpResult(TRUE, Surd(Rat(be_score, 2), RatZero))

\* struct.unpack('<BBBBBBBB') and struct.unpack('>BBBBBBBB'): single bytes
\* have no byte order, both give the bytes in wire order
UnpackBytesLE(sample) == sample
UnpackBytesBE(sample) == sample

\* _analyze_byte_pattern, in tenths
AnalyzeBytePattern(bytes_tuple) ==
    LET plain == Cardinality({i \in 1..8 : bytes_tuple[i] # 0 /\ bytes_tuple[i] # 255})
    IN Max(0, Min(10, plain - (8 - plain)))

UdpDetectByPattern(samples) ==
    LET little_endian_patterns ==
            Cardinality({i \in 1..Len(samples) :
                AnalyzeBytePattern(UnpackBytesLE(samples[i]))
                > AnalyzeBytePattern(UnpackBytesBE(samples[i]))})
        big_endian_patterns == Len(samples) - little_endian_patterns
        total_patterns == little_endian_patterns + big_endian_patterns
    IN IF total_patterns = 0 THEN UdpResult(FALSE, Surd(RatZero, RatZero))
       ELSE UdpResult(big_endian_patterns > little_endian_patterns,
                      Surd(Rat(Max(little_endian_patterns, big_endian_patterns),
                               total_patterns), RatZero))

RECURSIVE SumUnits(_, _)
SumUnits(values, i) ==
    IF i > Len(values) THEN 0 ELSE HalfUnits(values[i]) + SumUnits(values, i + 1)

RECURSIVE SumSquares(_, _)
SumSquares(values, i) ==
    IF i > Len(values) THEN 0
    ELSE HalfUnits(values[i]) * HalfUnits(values[i]) + SumSquares(values, i + 1)

IsZero(d) == AbsBits(d) = Dbl_Zero

\* The square of _calculate_variation, for finite values >= 0 in the domain
\* of HalfUnits: variance / mean^2 = (n * sum(x^2) - sum(x)^2) / sum(x)^2.
\* Values below 2^-500 count 0 in the sums, but make the mean non-zero; when
\* all values are such, the squares underflow and the variation is 0.0.
CalculateVariationSq(values) ==
    LET n == Len(values)
        sx == SumUnits(values, 1)
        sxx == SumSquares(values, 1)
    IN IF n < 2 THEN RatOne
       ELSE IF \A i \in 1..n : IsZero(values[i]) THEN RatOne
       ELSE IF sx = 0 THEN RatZero
       ELSE Rat(n * sxx - sx * sx, sx * sx)

UdpDetectByConsistency(samples) ==
    IF Len(samples) < 5 THEN UdpResult(FALSE, Surd(RatZero, RatZero))
    ELSE LET little_endian_values == SelectSeq(UdpValuesLE(samples), IsFinite)
             big_endian_values == SelectSeq(UdpValuesBE(samples), IsFinite)
         IN IF Len(little_endian_values) < 3 \/ Len(big_endian_values) < 3
            THEN UdpResult(FALSE, Surd(RatZero, RatZero))
            ELSE LET le_variation == CalculateVariationSq(little_endian_values)
                     be_variation == CalculateVariationSq(big_endian_values)
                 IN IF RatLess(le_variation, be_variation)
                    THEN UdpResult(FALSE, Surd(RatOne, le_variation))
                    ELSE UdpResult(TRUE, Surd(RatOne, be_variation))

UdpDetectEndianness(samples) ==
    LET range_result == UdpDetectByRange(samples)
        pattern_result == UdpDetectByPattern(samples)
        consistency_result == UdpDetectByConsistency(samples)
        big_endian_votes == BoolToNat(range_result.is_big_endian)
                            + BoolToNat(pattern_result.is_big_endian)
                            + BoolToNat(consistency_result.is_big_endian)
        little_endian_votes == 3 - big_endian_votes
        total_confidence == SurdAdd(SurdAdd(range_result.confidence,
                                            pattern_result.confidence),
                                    consistency_result.confidence)
    IN [is_big_endian |-> big_endian_votes > little_endian_votes,
        confidence |-> SurdThird(total_confidence),
        samples_tested |-> Len(samples)]

\* add_sample: the detection result after the sample joined the window
UdpAddSampleDetection(window, detection, data) ==
    LET w == AddSampleWindow(window, data)
    IN IF Len(w) >= 10 THEN UdpDetectEndianness(w) ELSE detection

\* _parse_float_data_with_endianness of the UDP reader
UdpReasonable(d) == AbsLt(d, Dbl_1000) /\ IsFinite(d)

UdpUsesVerdict(detection) ==
    detection # NoDetection /\ SurdGt(detection.confidence, Rat(7, 10))

UdpFallbackIsBig(data) ==
    UdpReasonable(UnpackBE(data)) /\ ~UdpReasonable(UnpackLE(data))

UdpParseFloatData(data, detection) ==
    IF Len(data) # 8 THEN NoValue
    ELSE LET is_big_endian == IF UdpUsesVerdict(detection)
                              THEN detection.is_big_endian
                              ELSE UdpFallbackIsBig(data)
             value == IF is_big_endian THEN UnpackBE(data) ELSE UnpackLE(data)
         IN IF ~IsFinite(value) THEN NoValue ELSE value

InitUdp ==
    /\ u_samples_per_port = <<>>
    /\ u_detection_results = NoDetection
    /\ u_latest_data = Dbl_Zero
    /\ u_port_data_count = 0
    /\ u_quality_stats = [total_packets_received |-> 0, valid_packets |-> 0,
                          parse_errors |-> 0]
    /\ u_last_path = "none"
    /\ u_last_data = <<>>

\* one pass of the loop of _socket_listener: recvfrom returned `data'
SocketListener(data) ==
    /\ u_quality_stats.total_packets_received < MaxDatagrams
    /\ IF Len(data) = expected_packet_size
       THEN LET window == AddSampleWindow(u_samples_per_port, data)
                detection == UdpAddSampleDetection(u_samples_per_port,
                                                   u_detection_results, data)
                float_value == UdpParseFloatData(data, detection)
            IN /\ Changes(window) <= MaxSwitches
               /\ u_samples_per_port' = window
               /\ u_detection_results' = detection
               /\ u_last_path' = IF UdpUsesVerdict(detection)
                                 THEN "confident" ELSE "fallback"
               /\ u_last_data' = data
               /\ IF float_value # NoValue
                  THEN /\ u_latest_data' = float_value
                       /\ u_port_data_count' = u_port_data_count + 1
                       /\ u_quality_stats' =
                              [u_quality_stats EXCEPT
                                  !.total_packets_received = @ + 1,
                                  !.valid_packets = @ + 1]
                  ELSE /\ u_quality_stats' =
                              [u_quality_stats EXCEPT
                                  !.total_packets_received = @ + 1,
                                  !.parse_errors = @ + 1]
                       /\ UNCHANGED <<u_latest_data, u_port_data_count>>
       ELSE /\ u_quality_stats' =
                   [u_quality_stats EXCEPT !.total_packets_received = @ + 1]
            /\ UNCHANGED <<u_samples_per_port, u_detection_results,
                           u_latest_data, u_port_data_count, u_last_path,
                           u_last_data>>
    /\ UNCHANGED notUdpVars

NextUdp == \E data \in UdpDatagrams : SocketListener(data)

(***************************************************************************)
(* SpecPort: the thread of one TCPPortReceiver, connected and running,     *)
(* against the byte stream of its peer.  The peer writes 8-byte            *)
(* little-endian samples back to back, 1.0 and 2.0 in turn; a recv returns *)
(* what it was asked for or fewer bytes, or times out.  Nothing takes      *)
(* items from data_queue.                                                  *)
(***************************************************************************)
MaxFramesP == 1002
MaxPartialReads == 2
MaxTimeouts == 2
PartialLen == 3

\* the k-th sample of the stream, k from 1, and the byte at offset j, j from 0
StreamFrame(k) == IF k % 2 = 1 THEN S_One ELSE S_Two
StreamByte(j) == StreamFrame((j \div 8) + 1)[(j % 8) + 1]
StreamBytes(from, n) == [j \in 1..n |-> StreamByte(from + j - 1)]

InitPort ==
    /\ p_pc = "loop"
    /\ p_float_bytes = <<>>
    /\ p_pos = 0
    /\ p_stats = [packets_received |-> 0, bytes_received |-> 0, parse_errors |-> 0]
    /\ p_queue = 0
    /\ p_callbacks = 0
    /\ p_device_data = Dbl_Zero
    /\ p_last_sample = <<>>
    /\ p_partial_reads = 0
    /\ p_timeouts = 0

\* _run, head of the outer loop with is_running true and the socket
\* connected: float_bytes = b'' and the first recv of the inner loop
PLoop ==
    /\ p_pc = "loop"
    /\ p_float_bytes' = <<>>
    /\ p_pc' = "recv"
    /\ UNCHANGED <<p_pos, p_stats, p_queue, p_callbacks, p_device_data,
                   p_last_sample, p_partial_reads, p_timeouts>>
    /\ UNCHANGED notPortVars

\* a complete float: bytes_received, _parse_float, and for a value the
\* counters, put_nowait and the callback, which stores into device_data;
\* queue.Full raised by put_nowait is swallowed and the callback skipped
PFrame(float_bytes) ==
    \E float_value \in {ParseFloatRx(float_bytes)} :
       /\ p_stats' = [p_stats EXCEPT
             !.bytes_received = @ + 8,
             !.parse_errors = IF float_value = NoValue THEN @ + 1 ELSE @,
             !.packets_received = IF float_value = NoValue THEN @ ELSE @ + 1]
       /\ p_last_sample' = IF float_value = NoValue THEN p_last_sample
                                                    ELSE float_bytes
       /\ IF float_value # NoValue /\ p_queue < queue_maxsize
          THEN /\ p_queue' = p_queue + 1
               /\ p_callbacks' = p_callbacks + 1
               /\ p_device_data' = float_value
          ELSE UNCHANGED <<p_queue, p_callbacks, p_device_data>>

\* the lengths recv(8 - len(float_bytes)) can return
RecvLens ==
    {8 - Len(p_float_bytes)}
       \cup (IF p_partial_reads < MaxPartialReads /\ 8 - Len(p_float_bytes) > PartialLen
             THEN {PartialLen} ELSE {})

\* recv returns the next n bytes of the stream: a complete float is
\* processed and the outer loop starts over, an incomplete one leads to
\* the next recv
PRecv(n) ==
    /\ p_pc = "recv"
    /\ n \in RecvLens
    /\ p_pos + n <= 8 * MaxFramesP
    /\ p_pos' = p_pos + n
    /\ p_partial_reads' = IF n < 8 - Len(p_float_bytes) THEN p_partial_reads + 1
                                                        ELSE p_partial_reads
    /\ \E float_bytes \in {p_float_bytes \o StreamBytes(p_pos, n)} :
          IF Len(float_bytes) = 8
          THEN /\ PFrame(float_bytes)
               /\ p_float_bytes' = <<>>
               /\ p_pc' = "loop"
          ELSE /\ p_float_bytes' = float_bytes
               /\ p_pc' = "recv"
               /\ UNCHANGED <<p_stats, p_queue, p_callbacks, p_device_data,
                              p_last_sample>>
    /\ UNCHANGED p_timeouts
    /\ UNCHANGED notPortVars

\* recv raises socket.timeout: continue, to the head of the outer loop
PRecvTimeout ==
    /\ p_pc = "recv"
    /\ p_timeouts < MaxTimeouts
    /\ p_timeouts' = p_timeouts + 1
    /\ p_pc' = "loop"
    /\ UNCHANGED <<p_float_bytes, p_pos, p_stats, p_queue, p_callbacks,
                   p_device_data, p_last_sample, p_partial_reads>>
    /\ UNCHANGED notPortVars

NextPort ==
    \/ PLoop
    \/ \E n \in 1..8 : PRecv(n)
    \/ PRecvTimeout

(***************************************************************************)
(* SpecSim: FlatSatDeviceSimulator.start and stop, and the processing      *)
(* thread of each enabled device.  The receiver, the loopback tester and   *)
(* the performance monitor start without error; a pass of the polling loop *)
(* either completes or raises, and handle_error then returns True or False.*)
(***************************************************************************)
SimDevices == <<"ars", "magnetometer", "reaction_wheel">>
SimNames == {SimDevices[i] : i \in 1..Len(SimDevices)}

InitSim ==
    /\ sim_running = FALSE
    /\ sim_enabled = {}
    /\ sim_pc = "new"
    /\ sim_i = 0
    /\ sim_threads = <<>>
    /\ sim_thread = [d \in SimNames |-> "none"]
    /\ sim_joined = 0

\* __init__ with a configuration: running = False, threads = []
SimNew(devices) ==
    /\ sim_pc = "new"
    /\ sim_enabled' = devices
    /\ sim_pc' = "init"
    /\ UNCHANGED <<sim_running, sim_i, sim_threads, sim_thread, sim_joined>>
    /\ UNCHANGED notSimVars

\* start, up to the call of _start_data_processing
SimStart ==
    /\ sim_pc = "init"
    /\ sim_pc' = "spawning"
    /\ sim_i' = 1
    /\ UNCHANGED <<sim_running, sim_enabled, sim_threads, sim_thread, sim_joined>>
    /\ UNCHANGED notSimVars

\* _start_data_processing, one pass of the for loop: thread.start() and
\* threads.append(thread) for an enabled device
StartDataProcessing ==
    /\ sim_pc = "spawning"
    /\ sim_i <= Len(SimDevices)
    /\ IF SimDevices[sim_i] \in sim_enabled
       THEN /\ sim_thread' = [sim_thread EXCEPT ![SimDevices[sim_i]] = "entry"]
            /\ sim_threads' = Append(sim_threads, SimDevices[sim_i])
       ELSE UNCHANGED <<sim_thread, sim_threads>>
    /\ sim_i' = sim_i + 1
    /\ UNCHANGED <<sim_running, sim_enabled, sim_pc, sim_joined>>
    /\ UNCHANGED notSimVars

\* start, after _start_data_processing: self.running = True, and return
SimSetRunning ==
    /\ sim_pc = "spawning"
    /\ sim_i > Len(SimDevices)
    /\ sim_running' = TRUE
    /\ sim_pc' = "started"
    /\ UNCHANGED <<sim_enabled, sim_i, sim_threads, sim_thread, sim_joined>>
    /\ UNCHANGED notSimVars

\* stop: self.running = False, then the receiver, the transmitters, the
\* tester, the logger and the monitor are stopped
SimStop ==
    /\ sim_pc = "started"
    /\ sim_running' = FALSE
    /\ sim_pc' = "joining"
    /\ sim_joined' = 0
    /\ UNCHANGED <<sim_enabled, sim_i, sim_threads, sim_thread>>
    /\ UNCHANGED notSimVars

\* stop: thread.join(timeout=2.0) returns, the thread having ended or the
\* two seconds having passed
SimJoin ==
    /\ sim_pc = "joining"
    /\ sim_joined < Len(sim_threads)
    /\ sim_joined' = sim_joined + 1
    /\ UNCHANGED <<sim_running, sim_enabled, sim_pc, sim_i, sim_threads, sim_thread>>
    /\ UNCHANGED notSimVars

\* stop returns
SimStopReturns ==
    /\ sim_pc = "joining"
    /\ sim_joined = Len(sim_threads)
    /\ sim_pc' = "stopped"
    /\ UNCHANGED <<sim_running, sim_enabled, sim_i, sim_threads, sim_thread, sim_joined>>
    /\ UNCHANGED notSimVars

\* _process_device_data: the encoder of an enabled device is found
TEntry(d) ==
    /\ sim_thread[d] = "entry"
    /\ sim_thread' = [sim_thread EXCEPT ![d] = "while"]
    /\ UNCHANGED <<sim_running, sim_enabled, sim_pc, sim_i, sim_threads, sim_joined>>
    /\ UNCHANGED notSimVars

\* while self.running: the read of the flag
TWhile(d) ==
    /\ sim_thread[d] = "while"
    /\ sim_thread' = [sim_thread EXCEPT ![d] = IF sim_running THEN "body"
                                                             ELSE "exited_flag"]
    /\ UNCHANGED <<sim_running, sim_enabled, sim_pc, sim_i, sim_threads, sim_joined>>
    /\ UNCHANGED notSimVars

\* one pass of the loop: get_data, encode, send and time.sleep(0.001); or
\* an exception, after which handle_error returns True and the thread
\* sleeps 0.1 s, or returns False and the thread breaks
TBody(d, outcome) ==
    /\ sim_thread[d] = "body"
    /\ sim_thread' = [sim_thread EXCEPT ![d] = IF outcome = "break" THEN "exited_error"
                                                                  ELSE "while"]
    /\ UNCHANGED <<sim_running, sim_enabled, sim_pc, sim_i, sim_threads, sim_joined>>
    /\ UNCHANGED notSimVars

NextSim ==
    \/ \E devices \in SUBSET SimNames : SimNew(devices)
    \/ SimStart
    \/ StartDataProcessing
    \/ SimSetRunning
    \/ SimStop
    \/ SimJoin
    \/ SimStopReturns
    \/ \E d \in SimNames :
          \/ TEntry(d)
          \/ TWhile(d)
          \/ \E outcome \in {"pass", "retry", "break"} : TBody(d, outcome)

(***************************************************************************)
(* SpecXmit: one TCPTransmitter as TCPTransmitterManager.add_transmitter   *)
(* sets it up: connect, start_transmission, start_reconnection; then       *)
(* send_data calls and disconnect.  Whether a connect succeeds and whether *)
(* a socket.send raises is the environment's choice.  The model follows    *)
(* the first MaxLoopThreads transmit threads and MaxQueuedT queue entries. *)
(***************************************************************************)
MaxLoopThreads == 3
MaxQueuedT == 2
MaxSent == 3

LoopIds == 1..MaxLoopThreads

InitXmit ==
    /\ tcp_is_connected = FALSE
    /\ tcp_stop_event = FALSE
    /\ tcp_queue = 0
    /\ tcp_pc = "new"
    /\ tcp_loop = [k \in LoopIds |-> "none"]
    /\ tcp_started = 0
    /\ tcp_reconnect = "none"
    /\ tcp_sent = 0

\* add_transmitter: connect(); a failed connect leaves the transmitter
\* without threads
AddConnect(ok) ==
    /\ tcp_pc = "new"
    /\ tcp_is_connected' = ok
    /\ tcp_pc' = IF ok THEN "start_tx" ELSE "failed"
    /\ UNCHANGED <<tcp_stop_event, tcp_queue, tcp_loop, tcp_started,
                   tcp_reconnect, tcp_sent>>
    /\ UNCHANGED notXmitVars

\* start_transmission, called by the thread at position at, which goes on
\* to position next: without a connection return False, else clear
\* stop_event and start a new _transmit_loop thread
StartTransmissionTcp ==
    IF ~tcp_is_connected
    THEN UNCHANGED <<tcp_stop_event, tcp_loop, tcp_started>>
    ELSE /\ tcp_started < MaxLoopThreads
         /\ tcp_stop_event' = FALSE
         /\ tcp_started' = tcp_started + 1
         /\ tcp_loop' = [tcp_loop EXCEPT ![tcp_started + 1] = "while"]

\* add_transmitter: start_transmission()
AddStartTransmission ==
    /\ tcp_pc = "start_tx"
    /\ StartTransmissionTcp
    /\ tcp_pc' = "start_rc"
    /\ UNCHANGED <<tcp_is_connected, tcp_queue, tcp_reconnect, tcp_sent>>
    /\ UNCHANGED notXmitVars

\* add_transmitter: start_reconnection()
StartReconnection ==
    /\ tcp_pc = "start_rc"
    /\ tcp_reconnect' = "while"
    /\ tcp_pc' = "added"
    /\ UNCHANGED <<tcp_is_connected, tcp_stop_event, tcp_queue, tcp_loop,
                   tcp_started, tcp_sent>>
    /\ UNCHANGED notXmitVars

\* send_data: without a connection return False, else queue the data
SendDataTcp ==
    /\ tcp_pc = "added"
    /\ tcp_queue < MaxQueuedT
    /\ tcp_queue' = IF tcp_is_connected THEN tcp_queue + 1 ELSE tcp_queue
    /\ UNCHANGED <<tcp_is_connected, tcp_stop_event, tcp_pc, tcp_loop,
                   tcp_started, tcp_reconnect, tcp_sent>>
    /\ UNCHANGED notXmitVars

\* disconnect: stop_event.set(); the joins return, the thread having ended
\* or the two seconds having passed; the socket is closed
DisconnectTcp ==
    /\ tcp_pc = "added"
    /\ tcp_stop_event' = TRUE
    /\ tcp_is_connected' = FALSE
    /\ tcp_pc' = "disconnected"
    /\ UNCHANGED <<tcp_queue, tcp_loop, tcp_started, tcp_reconnect, tcp_sent>>
    /\ UNCHANGED notXmitVars

\* _transmit_loop: while not self.stop_event.is_set()
LoopWhile(k) ==
    /\ tcp_loop[k] = "while"
    /\ tcp_loop' = [tcp_loop EXCEPT ![k] = IF tcp_stop_event THEN "exited" ELSE "get"]
    /\ UNCHANGED <<tcp_is_connected, tcp_stop_event, tcp_queue, tcp_pc,
                   tcp_started, tcp_reconnect, tcp_sent>>
    /\ UNCHANGED notXmitVars

\* _transmit_loop: transmit_queue.get(timeout=0.1) raises Empty: continue
LoopGetEmpty(k) ==
    /\ tcp_loop[k] = "get"
    /\ tcp_queue = 0
    /\ tcp_loop' = [tcp_loop EXCEPT ![k] = "while"]
    /\ UNCHANGED <<tcp_is_connected, tcp_stop_event, tcp_queue, tcp_pc,
                   tcp_started, tcp_reconnect, tcp_sent>>
    /\ UNCHANGED notXmitVars

\* _transmit_loop: an item is taken; with a connection socket.send either
\* returns or raises, and after a raise is_connected = False and the loop
\* goes on after time.sleep(0.1); without a connection the item is dropped
LoopGetItem(k, raises) ==
    /\ tcp_loop[k] = "get"
    /\ tcp_queue > 0
    /\ tcp_sent < MaxSent
    /\ tcp_queue' = tcp_queue - 1
    /\ tcp_sent' = IF tcp_is_connected THEN tcp_sent + 1 ELSE tcp_sent
    /\ tcp_is_connected' = (tcp_is_connected /\ ~raises)
    /\ tcp_loop' = [tcp_loop EXCEPT ![k] = "while"]
    /\ UNCHANGED <<tcp_stop_event, tcp_pc, tcp_started, tcp_reconnect>>
    /\ UNCHANGED notXmitVars

\* _reconnect_loop: while not self.stop_event.is_set(); with a connection
\* time.sleep(1.0), without one connect()
ReconnectWhile ==
    /\ tcp_reconnect = "while"
    /\ tcp_reconnect' = IF tcp_stop_event THEN "exited"
                        ELSE IF tcp_is_connected THEN "while" ELSE "connect"
    /\ UNCHANGED <<tcp_is_connected, tcp_stop_event, tcp_queue, tcp_pc,
                   tcp_loop, tcp_started, tcp_sent>>
    /\ UNCHANGED notXmitVars

\* _reconnect_loop: connect() returns; after a failure time.sleep(5.0)
ReconnectConnect(ok) ==
    /\ tcp_reconnect = "connect"
    /\ tcp_is_connected' = ok
    /\ tcp_reconnect' = IF ok THEN "start_tx" ELSE "while"
    /\ UNCHANGED <<tcp_stop_event, tcp_queue, tcp_pc, tcp_loop, tcp_started,
                   tcp_sent>>
    /\ UNCHANGED notXmitVars

\* _reconnect_loop: start_transmission()
ReconnectStartTransmission ==
    /\ tcp_reconnect = "start_tx"
    /\ StartTransmissionTcp
    /\ tcp_reconnect' = "while"
    /\ UNCHANGED <<tcp_is_connected, tcp_queue, tcp_pc, tcp_sent>>
    /\ UNCHANGED notXmitVars

NextXmit ==
    \/ \E ok \in BOOLEAN : AddConnect(ok)
    \/ AddStartTransmission
    \/ StartReconnection
    \/ SendDataTcp
    \/ DisconnectTcp
    \/ \E k \in LoopIds : LoopWhile(k)
    \/ \E k \in LoopIds : LoopGetEmpty(k)
    \/ \E k \in LoopIds : \E raises \in BOOLEAN : LoopGetItem(k, raises)
    \/ ReconnectWhile
    \/ \E ok \in BOOLEAN : ReconnectConnect(ok)
    \/ ReconnectStartTransmission

(***************************************************************************)
(* The specifications                                                      *)
(***************************************************************************)
\* the encoders as their constructors leave them with default arguments,
\* and one status manager
NewEncoders == sequence_counter = 0 /\ duplicate_to_redundant = FALSE
NewManager == ~enabled /\ cycle_interval = 1 /\ scenarios = <<"normal">>

InitAll ==
    /\ InitEndian /\ InitFrames /\ InitReader /\ InitRx /\ InitEnc /\ InitArs
    /\ InitStatus /\ InitTx /\ InitErr /\ InitUdp
    /\ InitPort /\ InitSim /\ InitXmit

Init == InitAll /\ NewEncoders /\ NewManager

SpecEndian == Init /\ [][NextEndian]_vars
SpecFrames == Init /\ [][NextFrames]_vars
SpecReader == Init /\ [][NextReader]_vars
SpecRx == Init /\ [][NextRx]_vars

\* the encoder specifications start from every instance of their encoder,
\* the status specification from every manager
InitSpecEnc == InitAll /\ duplicate_to_redundant = FALSE /\ NewManager
InitSpecArs == InitAll /\ sequence_counter = 0 /\ NewManager
InitSpecStatus == InitAll /\ NewEncoders

SpecEnc == InitSpecEnc /\ [][NextEnc]_vars
SpecStatus == InitSpecStatus /\ [][NextStatus]_vars
SpecTx == Init /\ [][NextTx]_vars
SpecErr == Init /\ [][NextErr]_vars
SpecUdp == Init /\ [][NextUdp]_vars
SpecPort == Init /\ [][NextPort]_vars
SpecSim == Init /\ [][NextSim]_vars
SpecXmit == Init /\ [][NextXmit]_vars
SpecArs == InitSpecArs /\ [][NextArs]_vars

(***************************************************************************)
(* Claims                                                                  *)
(***************************************************************************)

\* C1: a NaN or an infinity is never stored in the latest device vector,
\* whether the frame was decoded on the confident-verdict path or on the
\* fallback path.
C1_NoNonFiniteStored == IsFinite(e_latest_data)

\* the handler of connection c on port p is inside its read loop
Reading(p, c) ==
    hpc[p][c] \in {"recv", "st_total", "st_timing", "frames", "st_parse",
                   "st_valid", "write", "written"}

\* connections of port p with an open socket that are being read or have
\* been admitted for reading by the listener
Active(p) ==
    {c \in Conns :
        /\ c \in sock_open[p]
        /\ \/ Reading(p, c)
           \/ hpc[p][c] = "loop"
           \/ lpc[p] \in {"register", "spawn"} /\ lloc[p].client_sock = c}

\* C2: at most one peer connection is being read per port at any time;
\* every further connection accepted on a port while a peer is active there
\* is closed at once and no reader is ever started for it.
C2_OnePeerPerPort ==
    \A p \in Ports :
        /\ Cardinality({c \in Conns : Reading(p, c)}) <= 1
        /\ Cardinality(Active(p)) <= 1
        /\ \A c \in Conns :
              (Reading(p, c) /\ c \in sock_open[p]) => clients[p] = c
        /\ \A c \in rejected[p] :
              /\ c \notin sock_open[p]
              /\ hpc[p][c] = "none"
              /\ Handler(p, c) \notin started
        /\ \A c \in 1..conn_count[p] :
              \/ c \in rejected[p]
              \/ Handler(p, c) \in started
              \/ lloc[p].client_sock = c /\ lpc[p] \in {"got", "register", "spawn"}

\* a second connection has been rejected on a port whose first peer is
\* still being read
C2_Witness ==
    \E p \in Ports : \E c \in Conns :
        /\ Reading(p, c)
        /\ c \in sock_open[p]
        /\ rejected[p] # {}

\* C3: when accept fails with an error other than a timeout and no shutdown
\* has been requested, the listener stays in its accept loop; the error
\* never ends the listener.
C3_ListenerSurvivesAcceptError ==
    \A p \in Ports : is_running => lpc[p] \notin {"st_err", "done"}

\* C4: after the peer of a port has disconnected or its read has failed
\* while the service is running, the port is accepting again: the client
\* entry is released and the listener is there to accept the next connection.
C4_PortAcceptsAgain ==
    \A p \in released :
        is_running => lpc[p] \notin {"st_err", "done"}

\* number of threads that have loaded a counter and not yet stored it
InFlight(pcs) ==
    Cardinality({pc \in Ports \X Conns : hpc[pc[1]][pc[2]] \in pcs})

\* C7: every update of a quality counter is made under the device mutex, so
\* no increment is lost: each counter, with the increments in progress,
\* equals the number of events of its kind.
C7_NoIncrementLost ==
    /\ r_quality_stats.total_packets_received + InFlight({"st_total"})
          = events.total_packets_received
    /\ r_quality_stats.timing_violations + InFlight({"st_timing"})
          = events.timing_violations
    /\ r_quality_stats.parse_errors + InFlight({"st_parse"})
          = events.parse_errors
    /\ r_quality_stats.valid_packets + InFlight({"st_valid"})
          = events.valid_packets
    /\ r_quality_stats.tcp_connection_errors + InFlight({"st_err"})
          + Cardinality({p \in Ports : lpc[p] = "st_err"})
          = events.tcp_connection_errors

\* C9: stop_listening joins every thread that was started, the accept-loop
\* threads and the per-connection read threads alike.
C9_StopJoinsEveryThread ==
    main_pc = "stopped" => started \subseteq joined

\* C5: when a sample arrives as 7 bytes and then its 8th byte in a separate
\* read, exactly one sample is decoded, from the 8 bytes in stream order, and
\* the anomaly counters are what one read of the 8 bytes would have left.
C5_SplitSampleLikeWholeSample ==
    (Len(f_prev_read) = 7 /\ Len(f_last_read) = 1 /\ f_before[1].buf = <<>>) =>
        \E whole \in {ProcessPacketDataOn(f_before[1], f_prev_read \o f_last_read,
                                          f_now)} :
            /\ f_port_data_count = f_before[1].dcount + 1
            /\ f_port_data_count = whole.dcount
            /\ f_latest_data = UnpackLE(f_prev_read \o f_last_read)
            /\ f_quality_stats.timing_violations = whole.stats.timing_violations
            /\ f_quality_stats.size_violations = whole.stats.size_violations
            /\ f_quality_stats.parse_errors = whole.stats.parse_errors

\* C6: every write to a slot of a device's latest vector is made while the
\* writing thread holds that device's lock.
C6_WritesUnderLock ==
    x_last_write.port # -1 => x_last_write.holder = x_last_write.port

\* C8: once stop has been requested, every accept loop and every read loop
\* has terminated one blocking-timeout period after the stop flag was set.
C8_LoopsEndWithinTimeout ==
    \A i \in Ports :
        (x_stop_time[i] >= 0 /\ x_now > x_stop_time[i] + rx_timeout)
            => x_pc[i] = "done"

\* the frame length of each encoder's protocol
ProtocolLength == [can |-> 7, rs485 |-> 13, rw_health |-> 23]

\* C10: for every input vector of the correct length, NaN, infinite and
\* arbitrarily large components included, each encoder call returns a
\* frame of its fixed protocol length and raises no exception.
C10_EncoderAlwaysReturnsFrame ==
    enc_result.call # "none" =>
        /\ enc_result.raised = NoException
        /\ Len(enc_result.frame) = ProtocolLength[enc_result.call]

(* ---- the rate-sensor frame, as a receiver reads it ---- *)

\* the signed 16-bit integer of two little-endian bytes
SignedLE16(lo, hi) ==
    IF lo + 256 * hi >= 32768 THEN lo + 256 * hi - 65536 ELSE lo + 256 * hi

\* the i-th angular-rate field: bytes 2..7 of the frame
FrameRate(frame, i) == SignedLE16(frame[2 * i], frame[2 * i + 1])

\* status word 1: bytes 8..9 of the frame
FrameStatusWord1(frame) == frame[8] + 256 * frame[9]

\* the i-th angle field is zero: bytes 14..25 of the frame
FrameAngleIsZero(frame, i) ==
    \A k \in (10 + 4 * i)..(13 + 4 * i) : frame[k] = 0

\* the prime rate inputs and the prime angle inputs of a 6- or 12-float vector
InputRates(matlab_data) == SubSeq(matlab_data, 1, 3)
InputAngles(matlab_data) ==
    IF Len(matlab_data) = 12 THEN SubSeq(matlab_data, 7, 9)
    ELSE SubSeq(matlab_data, 4, 6)

\* C11 as stated: every frame returned by the rate-sensor encoder is
\* exactly 23 bytes long.
C11_RateFrameIs23Bytes ==
    ars_result.returned = "frame" => Len(ars_result.frame) = 23

\* C11, amended: every frame returned by the rate-sensor encoder is exactly
\* 27 bytes long: 1 sync byte, three 2-byte rates, three 2-byte status
\* words, three 4-byte angles (bytes 2..25), and in bytes 26..27 the
\* 16-bit sum of bytes 2..25.
C11_RateFrameIs27Bytes ==
    ars_result.returned = "frame" =>
        /\ Len(ars_result.frame) = 1 + 3 * 2 + 3 * 2 + 3 * 4 + 2
        /\ ars_result.frame[1] = 170
        /\ ars_result.frame[26] + 256 * ars_result.frame[27]
              = SumBytes(SubSeq(ars_result.frame, 2, 25)) % 65536

\* a frame was returned for a 12-float input with an infinite rate
C11_Witness ==
    /\ ars_result.returned = "frame"
    /\ Len(ars_input) = 12
    /\ ars_input[1] = PosInf

\* C12: every frame returned by the magnetometer RS485 encoder is exactly
\* 13 bytes long: a 4-byte header, a 7-byte payload and a 2-byte CRC.
C12_Rs485FrameIs13Bytes ==
    (enc_result.call = "rs485" /\ enc_result.raised = NoException) =>
        Len(enc_result.frame) = 4 + 7 + 2

\* C13: for every rate or angle input that is a NaN, an infinity, or finite
\* and beyond 1e6 in magnitude, the field of the frame is the integer 0.
C13_ExtremeInputEncodesZero ==
    ars_result.returned = "frame" =>
        \A i \in 1..3 :
            /\ InputRates(ars_input)[i].kind # "fin"
                  => FrameRate(ars_result.frame, i) = 0
            /\ InputAngles(ars_input)[i].kind # "fin"
                  => FrameAngleIsZero(ars_result.frame, i)

\* C14: the "rate sensor failed" bit (status word 1, bit 4) of a frame is
\* set exactly when every rate input of the calls so far was zero; once a
\* non-zero rate has been encoded it stays clear.
C14_RateSensorFailedIsLatched ==
    ars_result.returned = "frame" =>
        ((FrameStatusWord1(ars_result.frame) \div 16) % 2 = 1
            <=> ~ars_seen_nonzero)

\* C15: the (n+1)-th call of the RS485 encoder on one instance returns a
\* frame whose 16-bit sequence field is n modulo 65536, and the counter
\* advances by one; stated of a call with finite inputs on an instance
\* whose counter had kept up with its calls.
C15_SequenceFieldWraps ==
    (/\ enc_result.call = "rs485"
     /\ \A i \in 1..3 : enc_input[i].kind = "fin"
     /\ enc_seq_before = rs485_calls - 1) =>
        /\ enc_result.raised = NoException
        /\ enc_result.frame[3] + 256 * enc_result.frame[4]
              = (rs485_calls - 1) % 65536
        /\ sequence_counter = rs485_calls

\* a vector of a length the rate-sensor encoder does not take
WrongLength(matlab_data, duplicate) ==
    \/ Len(matlab_data) \notin {6, 12}
    \/ Len(matlab_data) = 6 /\ ~duplicate

\* C16: a call with an input vector of the wrong length, a 6-float vector
\* without duplicate-to-redundant included, raises an error to its caller
\* instead of returning an empty result.
C16_WrongLengthRaises ==
    (ars_calls > 0 /\ WrongLength(ars_input, duplicate_to_redundant)) =>
        ars_result.returned = "raised"

\* C17: convert_matlab_data with a vector of a length other than 6 and 12
\* returns None and leaves the message counter unchanged, and a frame
\* carries the rolling counter of the message counter its call found.
C17_InvalidLengthLeavesCounter ==
    /\ (ars_calls > 0 /\ Len(ars_input) \notin {6, 12}) =>
          /\ ars_result.returned = "None"
          /\ ars_message_counter = ars_counter_before
    /\ ars_result.returned = "frame" =>
          /\ FrameStatusWord1(ars_result.frame) % 4 = ars_counter_before % 4
          /\ ars_message_counter = ars_counter_before + 1

\* a call with a vector of 2 floats, made after a frame had been returned
C17_Witness ==
    /\ Len(ars_input) = 2
    /\ ars_result.returned = "None"
    /\ ars_frames >= 1

\* C18: for a finite rate whose scaled value lies inside the signed 16-bit
\* range the rate field is the quotient rounded to the nearest integer: it
\* differs from the quotient by at most half an LSB (2 quarters).
C18_RateFieldIsRounded ==
    ars_result.returned = "frame" =>
        \A i \in 1..3 :
            (/\ InputRates(ars_input)[i].kind = "fin"
             /\ InputRates(ars_input)[i].n >= -32768 * ANGULAR_RATE_SCALE
             /\ InputRates(ars_input)[i].n <= 32767 * ANGULAR_RATE_SCALE) =>
                Abs(FrameRate(ars_result.frame, i) * ANGULAR_RATE_SCALE
                    - InputRates(ars_input)[i].n) * 2 <= ANGULAR_RATE_SCALE

\* C19: the 2-bit counter in bits 0-1 of status word 1 is 0 in the first
\* frame of an encoder and advances by one modulo 4 from frame to frame.
C19_RollingCounterAdvances ==
    ars_result.returned = "frame" =>
        FrameStatusWord1(ars_result.frame) % 4 = (ars_frames - 1) % 4

\* the fifth frame of an encoder: the counter has wrapped to 0
C19_Witness ==
    /\ ars_result.returned = "frame"
    /\ ars_frames = 5
    /\ FrameStatusWord1(ars_result.frame) % 4 = 0

\* inputs on both sides of every threshold of the status derivation:
\* [wheel_speed, motor_current, temperature, bus_voltage]
RwThresholdInputs ==
    {<<Fin(speed), Fin(current), Fin(25), Fin(voltage)>> :
        speed \in {0, 4100, 4300, -4300},
        current \in {1, 9, 10},
        voltage \in {18, 19, 28, 41, 43}}
    \cup [1..4 -> RwValues]

\* C20: the reaction-wheel status derivation ranges over all five levels:
\* for each of NORMAL, WARNING, ERROR, CRITICAL and FAULT some input, among
\* the inputs around the thresholds and the input of the call just made,
\* has that derived status.
C20_AllFiveLevelsDerived ==
    enc_result.call = "rw_health" =>
        \A level \in {"NORMAL", "WARNING", "ERROR", "CRITICAL", "FAULT"} :
            \E v \in RwThresholdInputs \cup {enc_input} :
                ConvertRwaData(v).status = level

(* ---- the status manager ---- *)

\* the first k calls are queries, made at the times 0, T, 2T, ...
QueriesEveryInterval(k) ==
    \A j \in 1..k :
        /\ sm_log[j].call = "get_current_status_config"
        /\ sm_log[j].time = (j - 1) * cycle_interval

\* C21: with cycling enabled, interval T and a list [A, B, C] of scenarios,
\* a manager made at time 0 and queried at 0, T, 2T and 3T returns the
\* parameter sets of A, B, C and A.
C21_CyclingYieldsABCA ==
    (/\ enabled
     /\ Len(scenarios) = 3
     /\ \A i \in 1..3 : scenarios[i] \in KnownScenarios) =>
        \A k \in 1..Len(sm_log) :
            (k <= 4 /\ QueriesEveryInterval(k)) =>
                sm_log[k].config = StatusConfigs[scenarios[((k - 1) % 3) + 1]]

\* four queries at 0, 2, 4 and 6 with the list warning, error, fault: the
\* fourth returns the parameter set of warning again
C21_Witness ==
    /\ enabled
    /\ cycle_interval = 2
    /\ scenarios = <<"warning", "error", "fault">>
    /\ Len(sm_log) = 4
    /\ QueriesEveryInterval(4)
    /\ sm_log[4].config = StatusConfigs["warning"]

\* C22: whenever an unknown scenario name is met, as the current entry of
\* the scenario list or as the argument of force_scenario, the next query
\* returns the "normal" parameter set, a warning is logged and nothing is
\* raised; stated of a manager with cycling enabled.
C22_UnknownNameFallsBackToNormal ==
    enabled => \A k \in 1..Len(sm_log) :
        /\ ~sm_log[k].raised
        /\ (/\ sm_log[k].call = "get_current_status_config"
            /\ sm_log[k].scenario \notin KnownScenarios \cup {""}) =>
               /\ sm_log[k].config = StatusConfigs["normal"]
               /\ sm_log[k].warning
        /\ (/\ k > 1
            /\ sm_log[k - 1].call = "force_scenario"
            /\ sm_log[k - 1].scenario \notin KnownScenarios
            /\ sm_log[k].call = "get_current_status_config") =>
               /\ sm_log[k].config = StatusConfigs["normal"]
               /\ sm_log[k - 1].warning \/ sm_log[k].warning

(* ---- the transmitters and the error handler ---- *)

\* C28: a serial or CAN transmitter whose connect() has failed still works
\* in simulation mode: a send_data or send_message call on it returns True.
C28_SendWorksAfterFailedConnect ==
    (tx_result.call = "send" /\ connect_failed[tx_result.tx]) =>
        tx_result.returned = TRUE

\* C29: after n calls of handle_error on one handler, whatever the error
\* types and the outcomes of recovery, get_error_statistics reports
\* total_errors = n.
C29_TotalErrorsCountsCalls ==
    GetErrorStatistics.total_errors = handle_calls

\* three calls or more, of which some recovered and some did not, with a
\* registered strategy that raises
C29_Witness ==
    /\ handle_calls >= 3
    /\ GetErrorStatistics.recovered_errors > 0
    /\ GetErrorStatistics.failed_recoveries > 0
    /\ recovery_strategies[StrategyType] = "raises"
    /\ error_stats[StrategyType].failed_recoveries > 0

(***************************************************************************)
(* Claims: the endianness detector                                         *)
(***************************************************************************)

\* what the scorers of the UDP reader's detector have in favour of big-endian
UdpRangeFavoursBig(samples) ==
    UdpRangeScore(UdpValuesBE(samples)) > UdpRangeScore(UdpValuesLE(samples))

UdpPatternFavoursBig(samples) ==
    Cardinality({i \in 1..Len(samples) :
        AnalyzeBytePattern(UnpackBytesBE(samples[i]))
        > AnalyzeBytePattern(UnpackBytesLE(samples[i]))})
    > Cardinality({i \in 1..Len(samples) :
        AnalyzeBytePattern(UnpackBytesLE(samples[i]))
        > AnalyzeBytePattern(UnpackBytesBE(samples[i]))})

UdpConsistencyFavoursBig(samples) ==
    /\ Len(SelectSeq(UdpValuesLE(samples), IsFinite)) >= 3
    /\ Len(SelectSeq(UdpValuesBE(samples), IsFinite)) >= 3
    /\ RatLess(CalculateVariationSq(SelectSeq(UdpValuesBE(samples), IsFinite)),
               CalculateVariationSq(SelectSeq(UdpValuesLE(samples), IsFinite)))

\* C24: the verdict is big-endian only when the evidence strictly favours
\* big-endian: at least two of the three scorers score the big-endian
\* interpretation strictly better than the little-endian one; a scorer whose
\* two interpretations score equally votes little-endian, so a window on
\* which every scorer is tied yields little-endian.
C24_BigOnlyOnStrictEvidence ==
    (u_detection_results # NoDetection /\ u_detection_results.is_big_endian)
    => BoolToNat(UdpRangeFavoursBig(u_samples_per_port))
       + BoolToNat(UdpPatternFavoursBig(u_samples_per_port))
       + BoolToNat(UdpConsistencyFavoursBig(u_samples_per_port)) >= 2

\* C23: a listener decodes a sample with the detector's verdict exactly when
\* a verdict exists whose confidence exceeds 0.5; otherwise it takes the
\* big-endian value only when that value alone is plausible, and the
\* little-endian value when both or neither are.  Stated of every step of
\* the listener that stores a sample.
C23_VerdictUsedAboveHalf ==
    [][u_port_data_count' # u_port_data_count
       => u_latest_data' =
             IF /\ u_detection_results' # NoDetection
                /\ SurdGt(u_detection_results'.confidence, RatHalf)
             THEN IF u_detection_results'.is_big_endian
                  THEN UnpackBE(u_last_data') ELSE UnpackLE(u_last_data')
             ELSE IF /\ UdpReasonable(UnpackBE(u_last_data'))
                     /\ ~UdpReasonable(UnpackLE(u_last_data'))
                  THEN UnpackBE(u_last_data') ELSE UnpackLE(u_last_data')]_vars

\* the sample is the little-endian encoding of a finite double |v| < 1000
LittleEndianInRange(s) == IsFinite(UnpackLE(s)) /\ InSensorRange(UnpackLE(s))

\* C30: once a channel has received at least 10 samples, all of them
\* little-endian encodings of finite doubles of magnitude below 1000, the
\* detector's verdict for the channel is little-endian with a confidence
\* above 0.5.
C30_ConsistentSamplesYieldLittle ==
    (/\ Len(samples_per_port) >= min_detection_samples
     /\ \A i \in 1..Len(samples_per_port) : LittleEndianInRange(samples_per_port[i]))
    => /\ detection_results # NoDetection
       /\ ~detection_results.is_big_endian
       /\ RatLess(RatHalf, detection_results.confidence)

(***************************************************************************)
(* Claims: the channel of the TCP reader                                   *)
(***************************************************************************)

\* the elapsed time deviates from the expected interval by more than the
\* tolerance
Deviates(elapsed) == Abs(elapsed - expected_interval) > timing_tolerance_ms

\* The timing violations among the samples one read at time `now' had
\* accepted: the first of them came `now' - before.last after the channel's
\* previous accepted sample, if there was one, and each further one 0 ms
\* after the sample before it.
ViolationsOfAccepted(before, accepted, now) ==
    IF accepted = 0 THEN 0
    ELSE BoolToNat(before.last > 0 /\ Deviates(now - before.last))
         + (accepted - 1) * BoolToNat(Deviates(0))

\* C25: the timing-violations counter increases by exactly one for each
\* accepted sample whose elapsed time since the channel's previous accepted
\* sample deviates from the expected interval by more than the tolerance,
\* and by nothing otherwise; a read that completes no frame never increases
\* it, and a timing violation never prevents the sample from being written.
C25_TimingViolationPerAcceptedSample ==
    f_reads > 0 =>
        /\ f_quality_stats.timing_violations
              = f_before[2].stats.timing_violations
                + ViolationsOfAccepted(f_before[2],
                                       f_port_data_count - f_before[2].dcount,
                                       f_now)
        /\ (Len(f_before[2].buf \o f_last_read) < expected_packet_size
            => f_quality_stats.timing_violations
                  = f_before[2].stats.timing_violations)
        /\ f_port_data_count - f_before[2].dcount
              = f_quality_stats.valid_packets - f_before[2].stats.valid_packets

\* the value decoded from the last complete, valid 8-byte frame of a byte
\* stream cut at every 8th byte; `none' if it has no such frame
RECURSIVE LastValidFrame(_, _)
LastValidFrame(stream, none) ==
    IF Len(stream) < 8 THEN none
    ELSE LastValidFrame(SubSeq(stream, 9, Len(stream)),
                        IF IsFinite(UnpackLE(SubSeq(stream, 1, 8)))
                        THEN UnpackLE(SubSeq(stream, 1, 8)) ELSE none)

\* C27: within one channel the samples are applied in arrival order: after
\* any sequence of reads the value in the channel's slot is the one decoded
\* from the last complete, valid 8-byte frame of the byte stream, and the
\* bytes not yet decoded are the end of the stream, in order.
C27_SlotHoldsLastValidFrame ==
    /\ f_latest_data = LastValidFrame(f_stream, Dbl_Zero)
    /\ f_packet_buffers
          = SubSeq(f_stream, Len(f_stream) - (Len(f_stream) % 8) + 1, Len(f_stream))

\* three reads: a rejected frame, then a sample split over two reads
C27_Witness ==
    /\ f_reads = 3
    /\ Len(f_stream) = 16
    /\ SubSeq(f_stream, 1, 8) = S_Inf
    /\ Len(f_prev_read) = 7 /\ Len(f_last_read) = 1
    /\ f_latest_data = UnpackLE(S_One)
    /\ f_port_data_count = 1

\* C26: between start and stop of a reader every QualityStats counter is
\* monotonically non-decreasing, also while several client-handler threads
\* update the counters concurrently: no step of a running reader lowers one.
C26_CountersNeverDecrease ==
    [][is_running =>
          \A counter \in DOMAIN r_quality_stats :
              r_quality_stats'[counter] >= r_quality_stats[counter]]_vars

(***************************************************************************)
(* Claims: retries of the error handler                                    *)
(***************************************************************************)

MagFrameField(result, i) ==
    IF result.call = "can"
    THEN SignedLE16(result.frame[2 * i], result.frame[2 * i - 1])
    ELSE SignedLE16(result.frame[4 + 2 * i], result.frame[5 + 2 * i])

\* the status byte of a magnetometer frame
MagFrameStatus(result) ==
    IF result.call = "can" THEN result.frame[7] ELSE result.frame[12]

\* C39: for every magnetometer input whose derived status is NORMAL, each
\* 16-bit field component of the frame, read back as a signed 16-bit
\* integer at 1 nT per LSB, equals the integer part of the input component.
C39_NormalFieldNotWrapped ==
    (/\ enc_result.call \in {"can", "rs485"}
     /\ enc_result.raised = NoException
     /\ MagFrameStatus(enc_result) = MagStatus.NORMAL)
    => \A i \in 1..3 : MagFrameField(enc_result, i) = enc_input[i].n

\* the input with the wheel turning the other way at the same speed
Reversed(v) == [v EXCEPT ![1] = [v[1] EXCEPT !.n = 0 - v[1].n]]

\* bit 7 of the health-status word: wheel over speed
OverSpeedBit(v) == (BuildHealthStatusWord(ConvertRwaData(v)) \div 128) % 2

\* C38: reaction-wheel over-speed detection does not depend on the
\* direction of rotation: the inputs with wheel speed s and with wheel
\* speed -s, the other inputs equal, yield the same derived status and the
\* same over-speed bit in the health-status word.
C38_OverSpeedIgnoresDirection ==
    (enc_result.call = "rw_health" /\ enc_input[1].kind = "fin")
    => /\ ConvertRwaData(Reversed(enc_input)).status
            = ConvertRwaData(enc_input).status
       /\ OverSpeedBit(Reversed(enc_input)) = OverSpeedBit(enc_input)
       /\ (enc_result.raised = NoException
           => (enc_result.frame[8] \div 128) % 2 = OverSpeedBit(enc_input))

(***************************************************************************)
(* Claims: the synthesized redundant channels of the rate sensor           *)
(***************************************************************************)

\* bit 5 of status word 1 (gyro failed) and bits 11..14 of status word 3
\* (the FDC bits of gyros A, B, C and FDC failed), as the frame carries them
FrameGyroFailed(frame) == (frame[8] \div 32) % 2 = 1
FrameFdcBits(frame) == (frame[13] \div 8) % 16

\* C37: with duplicate-to-redundant enabled the synthesized redundant
\* channels never by themselves raise a fault: for every finite 6-float
\* input within +-1e6 and every variation factor within +-0.1%, the gyro
\* failed bit and the FDC bits of the frame are clear.
C37_SynthesizedChannelsRaiseNoFault ==
    (/\ duplicate_to_redundant
     /\ ars_result.returned = "frame"
     /\ Len(ars_input) = 6
     /\ \A i \in 1..6 : ars_input[i].kind = "fin")
    => /\ ~FrameGyroFailed(ars_result.frame)
       /\ FrameFdcBits(ars_result.frame) = 0


(***************************************************************************)
(* Claims: the quality score of the reader                                 *)
(***************************************************************************)

\* C36: always valid_packets <= total_packets_received, so that the quality
\* score reported by get_quality_stats lies between 0 and 1, also when one
\* read delivers several complete frames.
C36_ValidWithinReceived ==
    f_quality_stats.valid_packets <= f_quality_stats.total_packets_received


(***************************************************************************)
(* Claims: a failed start of the reader                                    *)
(***************************************************************************)

\* C35: when start_listening has returned False because the server socket
\* of some port could not be created, the reader is fully stopped: no
\* listener thread started for an earlier port is still running and no
\* earlier port is still bound.
C35_FailedStartLeavesNothingRunning ==
    main_pc = "start_failed"
    => /\ \A p \in Ports : lpc[p] \in {"none", "done"}
       /\ server_open = {}


(***************************************************************************)
(* Claims: the per-port receiver thread against its byte stream            *)
(***************************************************************************)

\* C31: every finite sample that arrives on a port is passed to the data
\* callback and stored in the device's latest vector, the k-th for every
\* k, also beyond the 1000th: the internal queue becoming full never
\* stops delivery.
C31_EverySampleDelivered ==
    /\ p_callbacks = p_stats.packets_received
    /\ p_stats.packets_received > 0 => p_device_data = UnpackLE(p_last_sample)

\* C32: the per-port receiver keeps frame alignment across read timeouts:
\* the bytes of a partial frame read before a timeout are retained, so
\* that while a frame is being read float_bytes holds every byte read
\* since the last complete frame, and the k-th decoded sample is made of
\* the bytes 8(k-1) .. 8k-1 of the stream.
C32_FramesStayAligned ==
    /\ p_pc = "recv"
          => p_float_bytes = StreamBytes(p_stats.bytes_received,
                                         p_pos - p_stats.bytes_received)
    /\ p_stats.packets_received > 0
          => p_last_sample = StreamFrame(p_stats.packets_received)


(***************************************************************************)
(* Claims: the start of the simulator                                      *)
(***************************************************************************)

\* C33: after FlatSatDeviceSimulator.start() has returned and until stop()
\* is called, the processing thread of every enabled device is running
\* its polling loop: none has observed the running flag false and exited.
C33_StartedThreadsKeepPolling ==
    sim_pc = "started"
    => \A d \in sim_enabled : sim_thread[d] # "exited_flag"


(***************************************************************************)
(* Claims: the transmit thread of the TCP transmitter                      *)
(***************************************************************************)

\* the _transmit_loop threads that are running
LiveLoops == {k \in LoopIds : tcp_loop[k] \in {"while", "get"}}

\* C34: one TCPTransmitter has at most one transmit-loop thread consuming
\* its queue at any time, across send failures and reconnects.
C34_AtMostOneTransmitLoop == Cardinality(LiveLoops) <= 1

============================================================================
